---- MODULE Spec2Model ----
(***************************************************************************)
(* The palex tokenizer (crates/palex): one append-only buffer, a cursor    *)
(* (contentStart, rawStart, kind), the dash / equals classification, the   *)
(* two commit forms (bump, bump_with_leading_dashes), the eat_* family and *)
(* the Part helpers (InputPart, InputPartLd).                              *)
(*                                                                         *)
(* Strings are sequences of one-byte characters; byte offsets are 0-based  *)
(* as in the source, so buf[i..] is SubSeq(buf, i + 1, Len(buf)).          *)
(***************************************************************************)
EXTENDS Integers, Sequences, FiniteSets, TLC

\* ------------------------------------------------------------------ bounds

\* Number of raw arguments the source holds at most.
MaxArgs == 2

\* The bytes that occur in raw arguments and targets: the two bytes the
\* classification looks at and one ordinary byte.
Alphabet == {"-", "=", "a"}

\* The raw arguments the source may hold.
ArgPool ==
    { <<>>,
      <<"-">>,
      <<"-", "-">>,
      <<"a", "=">>,
      <<"-", "a", "a", "=">>,
      <<"-", "-", "a", "=">>,
      <<"-", "-", "a", "=", "-">>,
      <<"-", "-", "-", "a">> }

\* The target strings handed to the eat_* calls: the empty string, every
\* single byte and one flag name of two bytes.
Targets == { <<>>, <<"-">>, <<"=">>, <<"a">>, <<"a", "a">> }

\* The source as one call sees it: n arguments are left and the next one is s.
\* (A call pulls at most once, so only the head is ever looked at; what the
\* source yields later is chosen when it is pulled.)
Source(n, s) == [i \in 1..n |-> s]

\* ------------------------------------------------------------ Option, str

None == <<>>
Some(x) == <<x>>
IsSome(o) == o # <<>>
IsNone(o) == o = <<>>
Unwrap(o) == o[1]

\* &s[i..]
SliceFrom(s, i) == SubSeq(s, i + 1, Len(s))
\* &s[i..j]
Slice(s, i, j) == SubSeq(s, i + 1, j)

starts_with(s, p) == Len(p) <= Len(s) /\ SubSeq(s, 1, Len(p)) = p

\* str::strip_prefix: the rest behind the prefix, or None
strip_prefix(s, p) == IF starts_with(s, p) THEN Some(SliceFrom(s, Len(p))) ELSE None

\* str::find(char): the 0-based offset of the first occurrence, or None
find(s, ch) ==
    IF \E i \in 1..Len(s) : s[i] = ch
    THEN Some((CHOOSE i \in 1..Len(s) : s[i] = ch /\ \A j \in 1..(i - 1) : s[j] # ch) - 1)
    ELSE None

\* ------------------------------------------------------------- TokenKind

NoDash == "NoDash"
OneDash == "OneDash"
TwoDashes == "TwoDashes"
AfterOneDash == "AfterOneDash"
AfterEquals == "AfterEquals"
TokenKind == {NoDash, OneDash, TwoDashes, AfterOneDash, AfterEquals}

\* ------------------------------------------------------------------ state

VARIABLES
    current,        \* Option<(usize, usize, TokenKind)>: (contentStart, rawStart, kind)
    iter,           \* the raw source: how many arguments it still holds
    buf,            \* the append-only buffer
    ignore_dashes,  \* the parsing mode
    part,           \* the live InputPart / InputPartLd, if any: Some([ld, len])
    panicked,       \* a panic! was raised (the operation aborted)
    op,             \* the last call on the tokenizer: its name, "part" for the five
                    \* Part-producing calls (a Part's take* and drop are not recorded)
    ret,            \* the Option<&str> that call returned
    pulled,         \* whether the last operation called iter.next()
    toggled,        \* whether the last call was a set_ignore_dashes that changed
                    \* the mode
    read,           \* history: the raw arguments pulled so far, in order
    hi,             \* history: the end offset of the last byte any commit returned
    revisit,        \* history: some commit returned a byte below hi
    hist,           \* history, kept by the conservation specifications only:
                    \* Some([out, cnt]) with out the returned slices concatenated
                    \* and cnt[i] how many commits returned byte i of buf
    result,         \* the Result the last call of the code above the tokenizer
                    \* (Parse, Action, the example program) returned
    bool_var,       \* the bool a SetOnce<bool> borrows
    option_var,     \* the Option<String> a SetOnce<Option<String>> borrows
    pc,             \* the example program: where its control is
    mark,           \* history: the tokenizer position (arguments read, offset)
                    \* at the start of the iteration the example program is
                    \* in, of the loop of main and of parse_subcommand
    locals          \* the example program: verbose, output, subcommand

vars == <<current, iter, buf, ignore_dashes, part, panicked, op, ret, pulled,
          toggled, read, hi, revisit, hist, result, bool_var, option_var, pc,
          mark, locals>>

\* the state of the code that calls the tokenizer
caller == <<result, bool_var, option_var, pc, mark, locals>>

\* the history variables
history == <<read, hi, revisit, hist>>

\* the tokenizer's own fields
core == <<current, iter, buf, ignore_dashes>>

contentStart(cur) == cur[1]
rawStart(cur) == cur[2]
kindOf(cur) == cur[3]

\* ------------------------------------------------- State Transition Engine

\* trim_leading_dashes that tests for a single dash before testing for two
trim_leading_dashes_one_first(ignore, string, cur) ==
    IF ignore THEN <<cur, cur, NoDash>>
    ELSE IF starts_with(string, <<"-">>) THEN <<cur + 1, cur, OneDash>>
    ELSE IF starts_with(string, <<"-", "-">>) THEN <<cur + 2, cur, TwoDashes>>
    ELSE <<cur, cur, NoDash>>

\* trim_leading_dashes(ignore, string, current)
trim_leading_dashes(ignore, string, cur) ==
    IF ignore THEN <<cur, cur, NoDash>>
    ELSE IF starts_with(string, <<"-", "-">>) THEN <<cur + 2, cur, TwoDashes>>
    ELSE IF starts_with(string, <<"-">>) THEN <<cur + 1, cur, OneDash>>
    ELSE <<cur, cur, NoDash>>

\* whether trim_equals(cur, kind) evaluates self.buf[cur..]
trim_equals_slices(kind) == kind \in {OneDash, TwoDashes, AfterOneDash}

\* trim_equals that never skips an '='
trim_equals_never_skips(b, cur, kind) ==
    <<cur, cur, IF kind = OneDash THEN AfterOneDash ELSE kind>>

\* trim_equals that treats '=' as special in every kind
trim_equals_in_every_kind(b, cur, kind) ==
    IF cur <= Len(b) /\ starts_with(SliceFrom(b, cur), <<"=">>)
    THEN <<cur + 1, cur + 1, AfterEquals>>
    ELSE <<cur, cur, IF kind = OneDash THEN AfterOneDash ELSE kind>>

\* trim_equals that leaves OneDash as it is when no '=' follows
trim_equals_keeps_one_dash(b, cur, kind) ==
    IF kind \in {OneDash, TwoDashes, AfterOneDash}
       /\ starts_with(SliceFrom(b, cur), <<"=">>)
    THEN <<cur + 1, cur + 1, AfterEquals>>
    ELSE <<cur, cur, kind>>

\* trim_equals(&self, current, kind); b is self.buf
trim_equals(b, cur, kind) ==
    CASE kind = NoDash -> <<cur, cur, kind>>
      [] kind = OneDash ->
            IF starts_with(SliceFrom(b, cur), <<"=">>)
            THEN <<cur + 1, cur + 1, AfterEquals>>
            ELSE <<cur, cur, AfterOneDash>>
      [] kind = TwoDashes ->
            IF starts_with(SliceFrom(b, cur), <<"=">>)
            THEN <<cur + 1, cur + 1, AfterEquals>>
            ELSE <<cur, cur, kind>>
      [] kind = AfterOneDash ->
            IF starts_with(SliceFrom(b, cur), <<"=">>)
            THEN <<cur + 1, cur + 1, AfterEquals>>
            ELSE <<cur, cur, kind>>
      [] kind = AfterEquals -> <<cur, cur, kind>>

\* ------------------------------------------------ Buffer & Position Tracker

\* current(): Option<(&str, TokenKind)>
current_view(cur, b) ==
    IF IsSome(cur)
    THEN Some(<<SliceFrom(b, contentStart(Unwrap(cur))), kindOf(Unwrap(cur))>>)
    ELSE None

\* current_str_with_leading_dashes(): Option<&str>
current_str_with_leading_dashes(cur, b) ==
    IF IsSome(cur) THEN Some(SliceFrom(b, rawStart(Unwrap(cur)))) ELSE None

\* is_empty that takes an empty view for an exhausted tokenizer
is_empty_on_empty_view(cur, b) ==
    IsNone(current_view(cur, b)) \/ Unwrap(current_view(cur, b))[1] = <<>>

is_empty(cur, b) == IsNone(current_view(cur, b))
is_not_empty(cur, b) == IsSome(current_view(cur, b))

\* can_parse_value_no_whitespace(&self)
can_parse_value_no_whitespace(cur, b) ==
    IF IsSome(current_view(cur, b))
    THEN Unwrap(current_view(cur, b))[2] \in {AfterOneDash, AfterEquals}
    ELSE FALSE

\* can_parse_dash_argument(&self)
can_parse_dash_argument(cur, b) ==
    IF IsSome(current_view(cur, b))
    THEN Unwrap(current_view(cur, b))[2] \in {OneDash, TwoDashes, AfterOneDash}
    ELSE FALSE

\* --------------------------------------------------------- Commit / Refill

\* What one call did to the tokenizer: its fields afterwards, the value it
\* returned (None also when it panicked), whether it panicked, whether it
\* called iter.next(), and the byte range [at, at + n) of buf it returned.
Effect(cur, it, b, r, p, pl, at, n) ==
    [current |-> cur, iter |-> it, buf |-> b, ret |-> r, panic |-> p,
     pulled |-> pl, at |-> at, n |-> n]

\* a call that returns None and touches nothing
Untouched(cur, it, b) == Effect(cur, it, b, None, FALSE, FALSE, 0, 0)

\* panic!(..) before any field was written
Panic(cur, it, b) == Effect(cur, it, b, None, TRUE, FALSE, 0, 0)

\* the refill that classifies the pulled argument by the ordinary dash rules
\* whatever the mode
refill_classifies_dashes(it, b, ign, c, prev, len) ==
    IF it # <<>>
    THEN LET s == Head(it)
             nb == b \o s
         IN Effect(Some(trim_leading_dashes(FALSE, s, c)), Tail(it), nb,
                   Some(Slice(nb, prev, prev + len)), FALSE, TRUE, prev, len)
    ELSE Effect(None, it, b, Some(Slice(b, prev, prev + len)), FALSE, TRUE, prev, len)

\* the refill that puts a space between the arguments of the buffer
refill_separates_arguments(it, b, ign, c, prev, len) ==
    IF it # <<>>
    THEN LET s == Head(it)
             nb == (b \o <<" ">>) \o s
         IN Effect(Some(trim_leading_dashes(ign, s, c + 1)), Tail(it), nb,
                   Some(Slice(nb, prev, prev + len)), FALSE, TRUE, prev, len)
    ELSE Effect(None, it, b, Some(Slice(b, prev, prev + len)), FALSE, TRUE, prev, len)

\* match self.iter.next() { Some(s) => push_str + trim_leading_dashes, None => None }
\* at offset `c`, returning buf[prev .. prev + len]
refill(it, b, ign, c, prev, len) ==
    IF it # <<>>
    THEN LET s == Head(it)
             nb == b \o s
         IN Effect(Some(trim_leading_dashes(ign, s, c)), Tail(it), nb,
                   Some(Slice(nb, prev, prev + len)), FALSE, TRUE, prev, len)
    ELSE Effect(None, it, b, Some(Slice(b, prev, prev + len)), FALSE, TRUE, prev, len)

\* bump that advances the cursor before it compares len with what is left
bump_checks_late(cur, it, b, ign, len) ==
    IF IsSome(cur)
    THEN LET c == contentStart(Unwrap(cur))
             cwd == rawStart(Unwrap(cur))
             kind == kindOf(Unwrap(cur))
             current_len == Len(b) - c
         IN IF len > current_len \/ current_len < 0
            THEN Effect(Some(<<c + len, cwd, kind>>), it, b, None, TRUE, FALSE, 0, 0)
            ELSE IF current_len = len
            THEN refill(it, b, ign, c + len, c, len)
            ELSE Effect(Some(trim_equals(b, c + len, kind)), it, b,
                        Some(Slice(b, c, c + len)), FALSE, FALSE, c, len)
    ELSE Panic(cur, it, b)

\* bump that returns the slice of a partial commit without moving the cursor
bump_without_advance(cur, it, b, ign, len) ==
    IF IsSome(cur)
    THEN LET c == contentStart(Unwrap(cur))
             current_len == Len(b) - c
         IN IF len > current_len \/ current_len < 0
            THEN Panic(cur, it, b)
            ELSE IF current_len = len
            THEN refill(it, b, ign, c + len, c, len)
            ELSE Effect(cur, it, b, Some(Slice(b, c, c + len)), FALSE, FALSE, c, len)
    ELSE Panic(cur, it, b)

\* bump that stays on an empty remainder when asked for zero bytes
bump_keeps_empty_remainder(cur, it, b, ign, len) ==
    IF IsSome(cur)
    THEN LET c == contentStart(Unwrap(cur))
             kind == kindOf(Unwrap(cur))
             current_len == Len(b) - c
         IN IF len > current_len \/ current_len < 0
            THEN Panic(cur, it, b)
            ELSE IF current_len = len /\ len > 0
            THEN refill(it, b, ign, c + len, c, len)
            ELSE Effect(Some(trim_equals(b, c + len, kind)), it, b,
                        Some(Slice(b, c, c + len)), FALSE, FALSE, c, len)
    ELSE Panic(cur, it, b)

\* bump(&mut self, len)
bump(cur, it, b, ign, len) ==
    IF IsSome(cur)
    THEN LET c == contentStart(Unwrap(cur))
             cwd == rawStart(Unwrap(cur))
             kind == kindOf(Unwrap(cur))
             current_len == Len(b) - c
         \* (self.buf.len() - *current cannot underflow: current <= buf.len()
         \* in every state a call can start from; an underflow would panic too)
         IN IF len > current_len \/ current_len < 0
            THEN Panic(cur, it, b)
            ELSE IF current_len = len
            THEN refill(it, b, ign, c + len, c, len)
            ELSE Effect(Some(trim_equals(b, c + len, kind)), it, b,
                        Some(Slice(b, c, c + len)), FALSE, FALSE, c, len)
    ELSE Panic(cur, it, b)

\* bump_with_leading_dashes(&mut self, len)
bump_with_leading_dashes(cur, it, b, ign, len) ==
    IF IsSome(cur)
    THEN LET c == contentStart(Unwrap(cur))
             cwd == rawStart(Unwrap(cur))
             kind == kindOf(Unwrap(cur))
             current_len == Len(b) - cwd
         IN IF len > current_len \/ current_len < 0
            THEN Panic(cur, it, b)
            ELSE IF current_len = len
            THEN refill(it, b, ign, cwd + len, cwd, len)
            ELSE IF trim_equals_slices(kind) /\ c + len > Len(b)
            \* self.buf[current..] in trim_equals is out of range: the slice
            \* panics after *current += len and *cwd += len were written
            THEN Effect(Some(<<c + len, cwd + len, kind>>), it, b, None, TRUE,
                        FALSE, 0, 0)
            ELSE Effect(Some(trim_equals(b, c + len, kind)), it, b,
                        Some(Slice(b, cwd, cwd + len)), FALSE, FALSE, cwd, len)
    ELSE Panic(cur, it, b)

\* bump_argument that stops in front of the first '=' of the view
bump_argument_to_equals(cur, it, b, ign) ==
    IF IsSome(cur)
    THEN LET view == SliceFrom(b, contentStart(Unwrap(cur)))
             i == find(view, "=")
         IN bump(cur, it, b, ign, IF IsSome(i) THEN Unwrap(i) ELSE Len(view))
    ELSE Untouched(cur, it, b)

\* bump_argument(&mut self): None on an exhausted tokenizer
bump_argument(cur, it, b, ign) ==
    IF IsSome(cur)
    THEN bump(cur, it, b, ign, Len(b) - contentStart(Unwrap(cur)))
    ELSE Untouched(cur, it, b)

\* set_ignore_dashes that only resets the cursor when the mode is switched on
set_ignore_dashes_keeps_cursor(cur, b, ignore) ==
    IF IsSome(cur) /\ ignore
    THEN Some(<<rawStart(Unwrap(cur)), rawStart(Unwrap(cur)), NoDash>>)
    ELSE cur

\* set_ignore_dashes that rewinds to the start of the buffer
set_ignore_dashes_rewinds(cur, b, ignore) ==
    IF IsSome(cur)
    THEN IF ignore
         THEN Some(<<0, 0, NoDash>>)
         ELSE Some(trim_leading_dashes(ignore, SliceFrom(b, contentStart(Unwrap(cur))),
                                       rawStart(Unwrap(cur))))
    ELSE None

\* set_ignore_dashes that moves the cursor back in the positional mode but
\* keeps the kind
set_ignore_dashes_keeps_kind(cur, b, ignore) ==
    IF IsSome(cur)
    THEN IF ignore
         THEN Some(<<rawStart(Unwrap(cur)), rawStart(Unwrap(cur)), kindOf(Unwrap(cur))>>)
         ELSE Some(trim_leading_dashes(ignore, SliceFrom(b, contentStart(Unwrap(cur))),
                                       rawStart(Unwrap(cur))))
    ELSE None

\* set_ignore_dashes(&mut self, ignore): the cursor afterwards
set_ignore_dashes(cur, b, ignore) ==
    IF IsSome(cur)
    THEN LET c == contentStart(Unwrap(cur))
             cwd == rawStart(Unwrap(cur))
         IN IF ignore
            THEN Some(<<cwd, cwd, NoDash>>)
            ELSE Some(trim_leading_dashes(ignore, SliceFrom(b, c), cwd))
    ELSE None

\* ------------------------------------------------ Token-Matching Operations

\* eat_no_dash that is content with the token being a prefix of the view
eat_no_dash_matches_prefix(cur, it, b, ign, token) ==
    LET v == current_view(cur, b)
    IN IF IsSome(v) /\ Unwrap(v)[2] = NoDash /\ starts_with(Unwrap(v)[1], token)
       THEN bump(cur, it, b, ign, Len(token))
       ELSE Untouched(cur, it, b)

eat_no_dash(cur, it, b, ign, token) ==
    LET v == current_view(cur, b)
    IN IF IsSome(v) /\ Unwrap(v)[2] = NoDash /\ token = Unwrap(v)[1]
       THEN bump(cur, it, b, ign, Len(token))
       ELSE Untouched(cur, it, b)

\* eat_one_dash that commits the whole view once the prefix matches
eat_one_dash_commits_view(cur, it, b, ign, token) ==
    LET v == current_view(cur, b)
    IN IF IsSome(v) /\ Unwrap(v)[2] \in {OneDash, AfterOneDash}
          /\ starts_with(Unwrap(v)[1], token)
       THEN bump(cur, it, b, ign, Len(Unwrap(v)[1]))
       ELSE Untouched(cur, it, b)

eat_one_dash(cur, it, b, ign, token) ==
    LET v == current_view(cur, b)
    IN IF IsSome(v) /\ Unwrap(v)[2] \in {OneDash, AfterOneDash}
          /\ starts_with(Unwrap(v)[1], token)
       THEN bump(cur, it, b, ign, Len(token))
       ELSE Untouched(cur, it, b)

\* eat_two_dashes that is content with the token being a prefix of the name
eat_two_dashes_matches_prefix(cur, it, b, ign, token) ==
    LET v == current_view(cur, b)
    IN IF IsSome(v) /\ Unwrap(v)[2] = TwoDashes /\ starts_with(Unwrap(v)[1], token)
       THEN bump(cur, it, b, ign, Len(token))
       ELSE Untouched(cur, it, b)

\* eat_two_dashes that commits as soon as the prefix matches and only then
\* looks at what follows the name
eat_two_dashes_commits_early(cur, it, b, ign, token) ==
    LET v == current_view(cur, b)
    IN IF IsSome(v) /\ Unwrap(v)[2] = TwoDashes
       THEN LET rest == strip_prefix(Unwrap(v)[1], token)
            IN IF IsSome(rest)
               THEN LET e == bump(cur, it, b, ign, Len(token))
                    IN IF Unwrap(rest) = <<>> \/ starts_with(Unwrap(rest), <<"=">>)
                       THEN e
                       ELSE [e EXCEPT !.ret = None]
               ELSE Untouched(cur, it, b)
       ELSE Untouched(cur, it, b)

eat_two_dashes(cur, it, b, ign, token) ==
    LET v == current_view(cur, b)
    IN IF IsSome(v) /\ Unwrap(v)[2] = TwoDashes
       THEN LET rest == strip_prefix(Unwrap(v)[1], token)
            IN IF IsSome(rest)
                  /\ (Unwrap(rest) = <<>> \/ starts_with(Unwrap(rest), <<"=">>))
               THEN bump(cur, it, b, ign, Len(token))
               ELSE Untouched(cur, it, b)
       ELSE Untouched(cur, it, b)

\* eat_value that does not look at the kind
eat_value_in_any_kind(cur, it, b, ign, token) ==
    LET v == current_view(cur, b)
    IN IF IsSome(v) /\ token = Unwrap(v)[1]
       THEN bump(cur, it, b, ign, Len(token))
       ELSE Untouched(cur, it, b)

\* eat_value that refuses the empty token
eat_value_needs_text(cur, it, b, ign, token) ==
    LET v == current_view(cur, b)
    IN IF IsSome(v) /\ token # <<>>
          /\ Unwrap(v)[2] \notin {TwoDashes, OneDash} /\ token = Unwrap(v)[1]
       THEN bump(cur, it, b, ign, Len(token))
       ELSE Untouched(cur, it, b)

eat_value(cur, it, b, ign, token) ==
    LET v == current_view(cur, b)
    IN IF IsSome(v)
       THEN IF Unwrap(v)[2] \in {TwoDashes, OneDash}
            THEN Untouched(cur, it, b)
            ELSE LET rest == strip_prefix(Unwrap(v)[1], token)
                 IN IF IsSome(rest) /\ Unwrap(rest) = <<>>
                    THEN bump(cur, it, b, ign, Len(token))
                    ELSE Untouched(cur, it, b)
       ELSE Untouched(cur, it, b)

\* eat_value_allows_leading_dashes that matches the view without the dashes
eat_value_without_leading_dashes(cur, it, b, ign, token) ==
    LET v == current_view(cur, b)
    IN IF IsSome(v) /\ token = Unwrap(v)[1]
       THEN bump(cur, it, b, ign, Len(token))
       ELSE Untouched(cur, it, b)

eat_value_allows_leading_dashes(cur, it, b, ign, token) ==
    LET s == current_str_with_leading_dashes(cur, b)
    IN IF IsSome(s)
       THEN LET rest == strip_prefix(Unwrap(s), token)
            IN IF IsSome(rest) /\ Unwrap(rest) = <<>>
               THEN bump_with_leading_dashes(cur, it, b, ign, Len(token))
               ELSE Untouched(cur, it, b)
       ELSE Untouched(cur, it, b)

\* ------------------------------------------------------------- Token Views

\* InputPart::new(len, input) / InputPartLd::new(len, input)
InputPart(len) == [ld |-> FALSE, len |-> len]
InputPartLd(len) == [ld |-> TRUE, len |-> len]

no_dash(cur, b) ==
    LET v == current_view(cur, b)
    IN IF IsSome(v) /\ Unwrap(v)[2] = NoDash
       THEN Some(InputPart(Len(Unwrap(v)[1]))) ELSE None

\* one_dash that also hands out a Part inside a bundle
one_dash_inside_bundle(cur, b) ==
    LET v == current_view(cur, b)
    IN IF IsSome(v) /\ Unwrap(v)[2] \in {OneDash, AfterOneDash}
       THEN Some(InputPart(Len(Unwrap(v)[1]))) ELSE None

one_dash(cur, b) ==
    LET v == current_view(cur, b)
    IN IF IsSome(v) /\ Unwrap(v)[2] = OneDash
       THEN Some(InputPart(Len(Unwrap(v)[1]))) ELSE None

\* two_dashes that accepts every kind that came from a dash argument
two_dashes_any_dash(cur, b) ==
    LET v == current_view(cur, b)
    IN IF IsSome(v) /\ Unwrap(v)[2] \in {OneDash, TwoDashes, AfterOneDash}
       THEN Some(InputPart(Len(Unwrap(v)[1]))) ELSE None

two_dashes(cur, b) ==
    LET v == current_view(cur, b)
    IN IF IsSome(v) /\ Unwrap(v)[2] = TwoDashes
       THEN Some(InputPart(Len(Unwrap(v)[1]))) ELSE None

value(cur, b) ==
    LET v == current_view(cur, b)
    IN IF IsSome(v) /\ Unwrap(v)[2] \in {NoDash, AfterOneDash, AfterEquals}
       THEN Some(InputPart(Len(Unwrap(v)[1]))) ELSE None

value_allows_leading_dashes(cur, b) ==
    LET s == current_str_with_leading_dashes(cur, b)
    IN IF IsSome(s) THEN Some(InputPartLd(Len(Unwrap(s)))) ELSE None

\* the view a Part claims a prefix of
part_view(p, cur, b) ==
    IF p.ld THEN Unwrap(current_str_with_leading_dashes(cur, b))
    ELSE Unwrap(current_view(cur, b))[1]

\* as_str(): &view[..self.len]; the slice panics when len exceeds the view
as_str_panics(p, cur, b) == p.len > Len(part_view(p, cur, b))
as_str(p, cur, b) == SubSeq(part_view(p, cur, b), 1, p.len)

\* take(self, len)
take(p, len) == [p EXCEPT !.len = len]

\* take_char(self): None if the claim is empty; every character of the
\* alphabet is one byte long (len_utf8() = 1)
take_char(p, cur, b) ==
    IF as_str(p, cur, b) = <<>> THEN None ELSE Some([p EXCEPT !.len = 1])

\* take_until(self, c)
take_until(p, cur, b, ch) ==
    LET i == find(as_str(p, cur, b), ch)
    IN [p EXCEPT !.len = IF IsSome(i) THEN Unwrap(i) ELSE p.len]

\* eat(self)
eat(p, cur, it, b, ign) ==
    IF p.ld THEN bump_with_leading_dashes(cur, it, b, ign, p.len)
    ELSE bump(cur, it, b, ign, p.len)

\* ------------------------------------------------------------ construction

\* a constructor that leaves the source alone until the first commit
new_lazy(args) == Effect(None, args, <<>>, None, FALSE, FALSE, 0, 0)

\* StringInput::new(iter) / ArgsInput::new(iter): pulls the first argument
new(args) ==
    IF args # <<>>
    THEN Effect(Some(trim_leading_dashes(FALSE, Head(args), 0)), Tail(args),
                Head(args), None, FALSE, TRUE, 0, 0)
    ELSE Effect(None, args, <<>>, None, FALSE, TRUE, 0, 0)

\* the state after construction from the source `args`, with the per-byte
\* history kept (track) or not
Constructed(args, track) ==
        LET e == new(args)
        IN /\ current = e.current
           /\ iter = Len(e.iter)
           /\ buf = e.buf
           /\ ignore_dashes = FALSE
           /\ part = None
           /\ panicked = FALSE
           /\ op = "new"
           /\ ret = None
           /\ pulled = TRUE
           /\ toggled = FALSE
           /\ read = IF args # <<>> THEN <<Head(args)>> ELSE <<>>
           /\ hi = 0
           /\ revisit = FALSE
           /\ hist = IF track
                     THEN Some([out |-> <<>>, cnt |-> [i \in 1..Len(e.buf) |-> 0]])
                     ELSE None

\* Result<_, Error> of the calls above the tokenizer: no call yet, Ok(text),
\* Ok(bool), Err(kind)
NoResult == [tag |-> "None", err |-> "", flag |-> FALSE, text |-> <<>>]
OkValue(v) == [tag |-> "Ok", err |-> "", flag |-> FALSE, text |-> v]
OkBool(f) == [tag |-> "Ok", err |-> "", flag |-> f, text |-> <<>>]
Err(e) == [tag |-> "Err", err |-> e, flag |-> FALSE, text |-> <<>>]

\* let mut verbose = false; let mut output = None; let mut subcommand = None;
\* in parse_subcommand: let mut subcommand = None (sub); in parse_rgb: the
\* numbers parsed so far (rgb)
NoLocals == [verbose |-> FALSE, output |-> None, subcommand |-> None,
             sub |-> None, rgb |-> <<>>]

\* the tokenizer is used on its own: nothing was called above it, the
\* variables an Action borrows are in their initial state
Standalone ==
    /\ result = NoResult
    /\ bool_var = FALSE
    /\ option_var = None
    /\ pc = "none"
    /\ mark = <<<<0, 0>>, <<0, 0>>>>
    /\ locals = NoLocals

Init ==
    /\ \E n \in 0..MaxArgs, s \in ArgPool : Constructed(Source(n, s), FALSE)
    /\ Standalone

\* ---------------------------------------------------------------- actions

\* One call on the tokenizer with effect e, the source holding s next: the
\* fields it wrote and the history.
Step(e, name, s) ==
    /\ current' = e.current
    /\ iter' = Len(e.iter)
    /\ buf' = e.buf
    /\ panicked' = e.panic
    /\ op' = name
    /\ ret' = e.ret
    /\ pulled' = e.pulled
    /\ toggled' = FALSE
    /\ read' = IF Len(e.iter) < iter THEN Append(read, s) ELSE read
    /\ hi' = IF IsSome(e.ret) /\ e.n > 0 /\ e.at + e.n > hi THEN e.at + e.n ELSE hi
    /\ revisit' = (revisit \/ (IsSome(e.ret) /\ e.n > 0 /\ e.at < hi))
    /\ hist' = IF IsSome(hist)
               THEN LET h == Unwrap(hist)
                    IN Some([out |-> IF IsSome(e.ret) THEN h.out \o Unwrap(e.ret) ELSE h.out,
                             cnt |-> [i \in 1..Len(e.buf) |->
                                (IF i <= Len(h.cnt) THEN h.cnt[i] ELSE 0)
                                + (IF IsSome(e.ret) /\ e.at < i /\ i <= e.at + e.n
                                   THEN 1 ELSE 0)]])
               ELSE None
    /\ part' = None
    /\ UNCHANGED ignore_dashes

AnyArg == CHOOSE a \in ArgPool : TRUE

\* A call F on the tokenizer, given the source: what the source yields is
\* chosen only if the call pulls from it.
CallOn(F(_), name, pool) ==
    LET e0 == F(Source(iter, AnyArg))
    IN IF e0.pulled /\ iter > 0
       THEN \E s \in pool : Step(F(Source(iter, s)), name, s)
       ELSE Step(e0, name, AnyArg)

\* a call made directly on the tokenizer
Call(F(_), name) == CallOn(F, name, ArgPool) /\ UNCHANGED caller

\* the tokenizer can be called: no panic so far, no Part borrowing it
Idle == ~panicked /\ IsNone(part)

\* the lengths a caller may pass to a commit: up to one past the view
Lens(view) == 0..(Len(view) + 1)

ContentView == IF IsSome(current) THEN Unwrap(current_view(current, buf))[1] ELSE <<>>
RawView == IF IsSome(current) THEN Unwrap(current_str_with_leading_dashes(current, buf)) ELSE <<>>

Bump(len) ==
    /\ Idle
    /\ LET F(it) == bump(current, it, buf, ignore_dashes, len)
       IN Call(F, "bump")

BumpWithLeadingDashes(len) ==
    /\ Idle
    /\ LET F(it) == bump_with_leading_dashes(current, it, buf, ignore_dashes, len)
       IN Call(F, "bump_with_leading_dashes")

BumpArgument ==
    /\ Idle
    /\ LET F(it) == bump_argument(current, it, buf, ignore_dashes)
       IN Call(F, "bump_argument")

SetIgnoreDashes(ignore) ==
    /\ Idle
    /\ ignore_dashes' = ignore
    /\ current' = set_ignore_dashes(current, buf, ignore)
    /\ op' = "set_ignore_dashes"
    /\ ret' = None
    /\ pulled' = FALSE
    /\ toggled' = (ignore # ignore_dashes)
    /\ UNCHANGED <<iter, buf, part, panicked, history, caller>>

EatNoDash(token) ==
    /\ Idle
    /\ LET F(it) == eat_no_dash(current, it, buf, ignore_dashes, token)
       IN Call(F, "eat_no_dash")

EatOneDash(token) ==
    /\ Idle
    /\ LET F(it) == eat_one_dash(current, it, buf, ignore_dashes, token)
       IN Call(F, "eat_one_dash")

EatTwoDashes(token) ==
    /\ Idle
    /\ LET F(it) == eat_two_dashes(current, it, buf, ignore_dashes, token)
       IN Call(F, "eat_two_dashes")

EatValue(token) ==
    /\ Idle
    /\ LET F(it) == eat_value(current, it, buf, ignore_dashes, token)
       IN Call(F, "eat_value")

EatValueAllowsLeadingDashes(token) ==
    /\ Idle
    /\ LET F(it) == eat_value_allows_leading_dashes(current, it, buf, ignore_dashes, token)
       IN Call(F, "eat_value_allows_leading_dashes")

\* A Part-producing call: the Part it returned (or None) borrows the tokenizer.
MakePart(p) ==
    /\ Idle
    /\ part' = p
    /\ op' = "part"
    /\ ret' = None
    /\ pulled' = FALSE
    /\ toggled' = FALSE
    /\ UNCHANGED <<core, panicked, history, caller>>

NoDashPart == MakePart(no_dash(current, buf))
OneDashPart == MakePart(one_dash(current, buf))
TwoDashesPart == MakePart(two_dashes(current, buf))
ValuePart == MakePart(value(current, buf))
ValueLdPart == MakePart(value_allows_leading_dashes(current, buf))

\* a method of the live Part that yields the Part np (or panics in as_str)
Refine(np, panics) ==
    /\ part' = IF panics THEN part ELSE np
    /\ panicked' = panics
    /\ UNCHANGED <<core, op, ret, pulled, toggled, history, caller>>

Take(len) ==
    /\ ~panicked /\ IsSome(part)
    /\ Refine(Some(take(Unwrap(part), len)), FALSE)

TakeChar ==
    /\ ~panicked /\ IsSome(part)
    /\ LET p == Unwrap(part)
       IN IF as_str_panics(p, current, buf)
          THEN Refine(part, TRUE)
          ELSE Refine(take_char(p, current, buf), FALSE)

TakeUntil(ch) ==
    /\ ~panicked /\ IsSome(part)
    /\ LET p == Unwrap(part)
       IN IF as_str_panics(p, current, buf)
          THEN Refine(part, TRUE)
          ELSE Refine(Some(take_until(p, current, buf, ch)), FALSE)

Eat ==
    /\ ~panicked /\ IsSome(part)
    /\ LET p == Unwrap(part)
       IN LET F(it) == eat(p, current, it, buf, ignore_dashes)
       IN Call(F, "eat")

\* a Part that commits its claim when it goes out of scope
DropCommits ==
    /\ ~panicked /\ IsSome(part)
    /\ LET p == Unwrap(part)
       IN LET F(it) == eat(p, current, it, buf, ignore_dashes)
       IN Call(F, "drop")

\* the Part goes out of scope without eat()
Drop ==
    /\ ~panicked /\ IsSome(part)
    /\ part' = None
    /\ UNCHANGED <<core, panicked, op, ret, pulled, toggled, history, caller>>

Next ==
    \/ \E len \in Lens(ContentView) : Bump(len)
    \/ \E len \in Lens(RawView) : BumpWithLeadingDashes(len)
    \/ BumpArgument
    \/ \E ignore \in BOOLEAN : SetIgnoreDashes(ignore)
    \/ \E token \in Targets : EatNoDash(token)
    \/ \E token \in Targets : EatOneDash(token)
    \/ \E token \in Targets : EatTwoDashes(token)
    \/ \E token \in Targets : EatValue(token)
    \/ \E token \in Targets : EatValueAllowsLeadingDashes(token)
    \/ NoDashPart
    \/ OneDashPart
    \/ TwoDashesPart
    \/ ValuePart
    \/ ValueLdPart
    \/ \E len \in Lens(IF IsSome(part) THEN part_view(Unwrap(part), current, buf) ELSE <<>>) : Take(len)
    \/ TakeChar
    \/ \E ch \in Alphabet : TakeUntil(ch)
    \/ Eat
    \/ Drop

Spec == Init /\ [][Next]_vars

\* ------------------------------------------ conservation specifications

\* a length a caller may claim without violating bump's contract
Within(view) == 0..Len(view)

InitTracked ==
    /\ \E n \in 0..MaxArgs, s \in ArgPool : Constructed(Source(n, s), TRUE)
    /\ Standalone

\* runs that advance only through dash-exclusive commits
NextEx ==
    \/ \E len \in Within(ContentView) : Bump(len)
    \/ BumpArgument
    \/ \E token \in Targets : EatNoDash(token)
    \/ \E token \in Targets : EatOneDash(token)
    \/ \E token \in Targets : EatTwoDashes(token)
    \/ \E token \in Targets : EatValue(token)
    \/ NoDashPart
    \/ OneDashPart
    \/ TwoDashesPart
    \/ ValuePart
    \/ \E len \in Within(ContentView) : Take(len)
    \/ TakeChar
    \/ \E ch \in Alphabet : TakeUntil(ch)
    \/ Eat
    \/ Drop

SpecEx == InitTracked /\ [][NextEx]_vars

\* runs that advance only through dash-inclusive commits
NextLd ==
    \/ \E token \in Targets : EatValueAllowsLeadingDashes(token)
    \/ ValueLdPart
    \/ \E len \in Within(RawView) : Take(len)
    \/ TakeChar
    \/ \E ch \in Alphabet : TakeUntil(ch)
    \/ Eat
    \/ Drop

SpecLd == InitTracked /\ [][NextLd]_vars

\* runs in which the parsing mode is never set
NextPlain ==
    \/ \E len \in Lens(ContentView) : Bump(len)
    \/ \E len \in Lens(RawView) : BumpWithLeadingDashes(len)
    \/ BumpArgument
    \/ \E token \in Targets : EatNoDash(token)
    \/ \E token \in Targets : EatOneDash(token)
    \/ \E token \in Targets : EatTwoDashes(token)
    \/ \E token \in Targets : EatValue(token)
    \/ \E token \in Targets : EatValueAllowsLeadingDashes(token)
    \/ NoDashPart
    \/ OneDashPart
    \/ TwoDashesPart
    \/ ValuePart
    \/ ValueLdPart
    \/ \E len \in Lens(IF IsSome(part) THEN part_view(Unwrap(part), current, buf) ELSE <<>>) : Take(len)
    \/ TakeChar
    \/ \E ch \in Alphabet : TakeUntil(ch)
    \/ Eat
    \/ Drop

SpecPlain == Init /\ [][NextPlain]_vars

\* ----------------------------------------------- parkour: the Parse trait

\* StringCtx { min_length, max_length, allow_leading_dashes }
StringCtx(min, max, allow) ==
    [min_length |-> min, max_length |-> max, allow_leading_dashes |-> allow]

\* a max_length no text of the model reaches (usize::MAX)
MaxLength == 64

\* the contexts a caller passes: any string, a string of at least two bytes,
\* a string of at most one byte, each with and without leading dashes
StringCtxs ==
    { StringCtx(b[1], b[2], allow) :
        b \in {<<0, MaxLength>>, <<2, MaxLength>>, <<0, 1>>}, allow \in BOOLEAN }

\* <String as FromInputValue>::from_input_value(value, context)
from_input_value(text, context) ==
    IF Len(text) < context.min_length \/ Len(text) > context.max_length
    THEN Err("UnexpectedValue")
    ELSE OkValue(text)

\* parse_value that commits the peeked view before it converts it
parse_value_commits_first(cur, it, b, ign, context) ==
    LET p == IF context.allow_leading_dashes
             THEN value_allows_leading_dashes(cur, b)
             ELSE value(cur, b)
    IN IF IsNone(p)
       THEN [e |-> Untouched(cur, it, b), r |-> Err("NoValue")]
       ELSE [e |-> eat(Unwrap(p), cur, it, b, ign),
             r |-> from_input_value(as_str(Unwrap(p), cur, b), context)]

\* <ArgsInput as Parse>::parse_value::<String>(context): the effect e on the
\* tokenizer and the Result r
parse_value(cur, it, b, ign, context) ==
    LET p == IF context.allow_leading_dashes
             THEN value_allows_leading_dashes(cur, b)
             ELSE value(cur, b)
    IN IF IsNone(p)
       THEN [e |-> Untouched(cur, it, b), r |-> Err("NoValue")]
       ELSE LET r == from_input_value(as_str(Unwrap(p), cur, b), context)
            IN IF r.tag = "Err"
               THEN [e |-> Untouched(cur, it, b), r |-> r]
               ELSE [e |-> eat(Unwrap(p), cur, it, b, ign), r |-> r]

\* parse_short_flag, parse_long_flag, parse_command: eat_*(..).is_some()
parse_short_flag(cur, it, b, ign, flag) == eat_one_dash(cur, it, b, ign, flag)
parse_long_flag(cur, it, b, ign, flag) == eat_two_dashes(cur, it, b, ign, flag)
parse_command(cur, it, b, ign, command) == eat_no_dash(cur, it, b, ign, command)

ParseValue(context) ==
    /\ Idle
    /\ LET F(it) == parse_value(current, it, buf, ignore_dashes, context).e
       IN CallOn(F, "parse_value", ArgPool)
    /\ result' = parse_value(current, Source(iter, AnyArg), buf, ignore_dashes, context).r
    /\ UNCHANGED <<bool_var, option_var, pc, mark, locals>>

ParseShortFlag(flag) ==
    /\ Idle
    /\ LET F(it) == parse_short_flag(current, it, buf, ignore_dashes, flag)
       IN CallOn(F, "parse_short_flag", ArgPool)
    /\ result' = NoResult
    /\ UNCHANGED <<bool_var, option_var, pc, mark, locals>>

ParseLongFlag(flag) ==
    /\ Idle
    /\ LET F(it) == parse_long_flag(current, it, buf, ignore_dashes, flag)
       IN CallOn(F, "parse_long_flag", ArgPool)
    /\ result' = NoResult
    /\ UNCHANGED <<bool_var, option_var, pc, mark, locals>>

ParseCommand(command) ==
    /\ Idle
    /\ LET F(it) == parse_command(current, it, buf, ignore_dashes, command)
       IN CallOn(F, "parse_command", ArgPool)
    /\ result' = NoResult
    /\ UNCHANGED <<bool_var, option_var, pc, mark, locals>>

\* ---------------------------------------------------- parkour: actions

\* Flag::Short(s), Flag::Long(l), Flag::LongShort(l, s)
Short(s) == [variant |-> "Short", long |-> <<>>, short |-> s]
Long(l) == [variant |-> "Long", long |-> l, short |-> <<>>]
LongShort(l, s) == [variant |-> "LongShort", long |-> l, short |-> s]

Flags == { Short(<<"a">>), Long(<<"a">>), LongShort(<<"a", "a">>, <<"a">>) }

\* ArgCtx / OptionCtx { flag, inner }: the value is any string without
\* leading dashes, or a string of at least two bytes that may have them
ArgCtxs ==
    { [flag |-> f, inner |-> c] :
        f \in Flags,
        c \in {StringCtx(0, MaxLength, FALSE), StringCtx(2, MaxLength, TRUE)} }

\* Flag::from_input(input, context): the effect; the flag matched iff it
\* returned a slice
Flag_from_input(cur, it, b, ign, context) ==
    CASE context.variant = "Short" -> parse_short_flag(cur, it, b, ign, context.short)
      [] context.variant = "Long" -> parse_long_flag(cur, it, b, ign, context.long)
      [] context.variant = "LongShort" ->
            LET l == parse_long_flag(cur, it, b, ign, context.long)
            IN IF IsSome(l.ret) THEN l
               ELSE parse_short_flag(cur, it, b, ign, context.short)

\* <Set<bool> as Action<Flag>>::apply: stores on every match
Set_bool_apply(cur, it, b, ign, context, var) ==
    LET f == Flag_from_input(cur, it, b, ign, context)
    IN IF IsSome(f.ret)
       THEN [e |-> f, r |-> OkBool(TRUE), var |-> TRUE]
       ELSE [e |-> f, r |-> OkBool(FALSE), var |-> var]

\* <SetOnce<bool> as Action<Flag>>::apply(self, input, context), self.0 = var
SetOnce_bool_apply(cur, it, b, ign, context, var) ==
    LET f == Flag_from_input(cur, it, b, ign, context)
    IN IF IsSome(f.ret)
       THEN IF var
            THEN [e |-> f, r |-> Err("TooManyArgOccurrences"), var |-> var]
            ELSE [e |-> f, r |-> OkBool(TRUE), var |-> TRUE]
       ELSE [e |-> f, r |-> OkBool(FALSE), var |-> var]

\* from_input once the flag f matched and parse_value gave v: the tokenizer
\* is left where v left it, or behind the flag if v consumed nothing; a
\* missing value is the error missing_value
value_of_flag(f, v) ==
    LET e == IF IsSome(v.e.ret) THEN [v.e EXCEPT !.pulled = f.pulled \/ v.e.pulled]
             ELSE [f EXCEPT !.ret = None]
    IN IF v.r.tag = "Ok" THEN [e |-> e, r |-> v.r]
       ELSE IF v.r.err = "NoValue" THEN [e |-> e, r |-> Err("MissingValue")]
       ELSE [e |-> e, r |-> v.r]

\* from_input behind Flag::from_input, which had the effect f
flag_then_value(f, ign, context) ==
    IF IsSome(f.ret)
    THEN value_of_flag(f, parse_value(f.current, f.iter, f.buf, ign, context.inner))
    ELSE [e |-> f, r |-> Err("NoValue")]

\* <String as FromInput>::from_input(input, context): the flag, then its value
from_input(cur, it, b, ign, context) ==
    flag_then_value(Flag_from_input(cur, it, b, ign, context.flag), ign, context)

\* Err(no_value) becomes Ok(None): Some(text) is r with the tag Ok, None is
\* NoResult
no_value_is_none(p) ==
    IF p.r.tag = "Err" /\ p.r.err = "NoValue" THEN [p EXCEPT !.r = NoResult] ELSE p

\* FromInput::try_from_input
try_from_input(cur, it, b, ign, context) ==
    no_value_is_none(from_input(cur, it, b, ign, context))

\* SetOnce<Option<V>>::apply behind input.try_parse(context)?, which gave p
store_once(p, var) ==
    IF p.r.tag = "Err" THEN [e |-> p.e, r |-> p.r, var |-> var]
    ELSE IF p.r.tag = "Ok"
    THEN IF IsSome(var)
         THEN [e |-> p.e, r |-> Err("TooManyArgOccurrences"), var |-> var]
         ELSE [e |-> p.e, r |-> OkBool(TRUE), var |-> Some(p.r.text)]
    ELSE [e |-> p.e, r |-> OkBool(FALSE), var |-> var]

\* <SetOnce<Option<String>> as Action<OptionCtx>>::apply, self.0 = var
SetOnce_option_apply(cur, it, b, ign, context, var) ==
    store_once(try_from_input(cur, it, b, ign, context), var)

\* the source as a call that pulls up to twice sees it
Source2(n, s1, s2) == [i \in 1..n |-> IF i = 1 THEN s1 ELSE s2]

\* the new state after a call with the effect e that saw the source src
StepMany(e, name, src) ==
    /\ current' = e.current
    /\ iter' = Len(e.iter)
    /\ buf' = e.buf
    /\ panicked' = e.panic
    /\ op' = name
    /\ ret' = e.ret
    /\ pulled' = e.pulled
    /\ toggled' = FALSE
    /\ read' = read \o SubSeq(src, 1, iter - Len(e.iter))
    /\ hi' = IF IsSome(e.ret) /\ e.n > 0 /\ e.at + e.n > hi THEN e.at + e.n ELSE hi
    /\ revisit' = (revisit \/ (IsSome(e.ret) /\ e.n > 0 /\ e.at < hi))
    /\ hist' = None
    /\ part' = None
    /\ UNCHANGED ignore_dashes

ApplySetOnceBool(context) ==
    /\ Idle
    /\ LET F(it) == SetOnce_bool_apply(current, it, buf, ignore_dashes, context, bool_var).e
       IN CallOn(F, "SetOnce<bool>", ArgPool)
    /\ LET a == SetOnce_bool_apply(current, Source(iter, AnyArg), buf, ignore_dashes,
                                   context, bool_var)
       IN result' = a.r /\ bool_var' = a.var
    /\ UNCHANGED <<option_var, pc, mark, locals>>

\* the new state after an application with the outcome a on the source src
Applied(a, name, src) ==
    /\ StepMany(a.e, name, src)
    /\ result' = a.r
    /\ option_var' = a.var

ApplySetOnceOption(context) ==
    /\ Idle
    /\ LET A(src) == SetOnce_option_apply(current, src, buf, ignore_dashes, context,
                                          option_var)
           Pulls(a) == iter - Len(a.e.iter)
           Go(src) == Applied(A(src), "SetOnce<Option>", src)
       \* what the source yields is chosen only for the pulls the call makes
       IN IF Pulls(A(Source2(iter, AnyArg, AnyArg))) = 0
          THEN Go(Source2(iter, AnyArg, AnyArg))
          ELSE \E s1 \in ArgPool :
                IF Pulls(A(Source2(iter, s1, AnyArg))) < 2
                THEN Go(Source2(iter, s1, AnyArg))
                ELSE \E s2 \in ArgPool : Go(Source2(iter, s1, s2))
    /\ UNCHANGED <<bool_var, pc, mark, locals>>

\* runs of a parser written against the Parse trait
NextParse ==
    \/ \E context \in StringCtxs : ParseValue(context)
    \/ \E flag \in Targets : ParseShortFlag(flag)
    \/ \E flag \in Targets : ParseLongFlag(flag)
    \/ \E context \in Flags : ApplySetOnceBool(context)
    \/ \E context \in ArgCtxs : ApplySetOnceOption(context)
    \/ \E command \in Targets : ParseCommand(command)

SpecParse == Init /\ [][NextParse]_vars

\* ------------------------------------------- palex: examples/parser.rs

\* the arguments of the example program and the strings it compares with
Str_h == <<"h">>
Str_help == <<"h", "e", "l", "p">>
Str_v == <<"v">>
Str_verbose == <<"v", "e", "r", "b", "o", "s", "e">>
Str_o == <<"o">>
Str_out == <<"o", "u", "t">>
Str_subcommand == <<"s", "u", "b", "c", "o", "m", "m", "a", "n", "d">>
Str_rgb == <<"r", "g", "b">>

\* the most arguments std::env::args() yields, the program's name included
MaxArgv == 6

\* What std::env::args() may yield: the flags of the program, alone and with
\* a value attached, the subcommand, numbers, and a word it does not know.
ExamplePool ==
    { <<"-", "h">>,
      <<"-", "v">>,
      <<"-", "o", "x">>,
      <<"-", "-">> \o Str_out,
      Str_subcommand,
      <<"-", "-">> \o Str_rgb,
      <<"-", "-">> \o Str_rgb \o <<"=", "1", ",", "2", ",", "3">>,
      <<"1">>,
      <<"x">> }

\* str::split(c): the pieces between the occurrences of c
RECURSIVE split(_, _)
split(s, ch) ==
    LET i == find(s, ch)
    IN IF IsNone(i) THEN <<s>>
       ELSE <<Slice(s, 0, Unwrap(i))>> \o split(SliceFrom(s, Unwrap(i) + 1), ch)

Digits == <<"0", "1", "2", "3", "4", "5", "6", "7", "8", "9">>
IsDigit(c) == \E i \in 1..10 : Digits[i] = c
DigitValue(c) == (CHOOSE i \in 1..10 : Digits[i] = c) - 1

\* the number the digits stand for, capped once it is beyond u8::MAX
RECURSIVE Decimal(_)
Decimal(s) ==
    IF s = <<>> THEN 0
    ELSE LET v == 10 * Decimal(SubSeq(s, 1, Len(s) - 1)) + DigitValue(s[Len(s)])
         IN IF v > 255 THEN 256 ELSE v

\* <u8 as FromStr>::from_str: an optional plus sign, then at least one digit,
\* and a value of at most 255
parse_u8(s) ==
    LET body == IF s # <<>> /\ s[1] = "+" THEN Tail(s) ELSE s
    IN IF body = <<>> \/ (\E i \in 1..Len(body) : ~IsDigit(body[i])) THEN None
       ELSE IF Decimal(body) > 255 THEN None
       ELSE Some(Decimal(body))

\* input.eat_one_dash(short).is_some() || input.eat_two_dashes(long).is_some()
eat_flag(cur, it, b, ign, short, long) ==
    LET s == eat_one_dash(cur, it, b, ign, short)
    IN IF IsSome(s.ret) THEN s ELSE eat_two_dashes(cur, it, b, ign, long)

\* Option::unwrap on what a call returned
unwrap(e) == IF IsNone(e.ret) THEN [e EXCEPT !.panic = TRUE] ELSE e

\* part.eat() on the Part a call handed out, if it handed one out
eat_part(p, cur, it, b, ign) ==
    IF IsSome(p) THEN eat(Unwrap(p), cur, it, b, ign) ELSE Untouched(cur, it, b)

\* where the tokenizer is: the arguments read so far and the offset in buf
Position == <<Len(read), IF IsSome(current) THEN contentStart(Unwrap(current)) ELSE 0>>

\* the state main starts in: StringInput::new(std::env::args())
InitExample ==
    /\ \E n \in 0..MaxArgv, s \in ExamplePool : Constructed(Source(n, s), FALSE)
    /\ result = NoResult
    /\ bool_var = FALSE
    /\ option_var = None
    /\ pc = "start"
    /\ mark = <<<<0, 0>>, <<0, 0>>>>
    /\ locals = NoLocals

\* One statement of the program that calls the tokenizer through F: the
\* tokenizer's new state, then where control goes (to, or nowhere after a
\* panic), what main returned (res) and the locals (loc).
Statement(F(_), name, to, res, loc) ==
    /\ ~panicked
    /\ CallOn(F, name, ExamplePool)
    /\ pc' = IF F(Source(iter, AnyArg)).panic THEN "panicked" ELSE to
    /\ result' = res
    /\ locals' = loc
    /\ UNCHANGED <<bool_var, option_var, mark>>

\* a statement that leaves the tokenizer alone
Quiet == UNCHANGED <<core, part, panicked, op, ret, pulled, toggled, history,
                     bool_var, option_var>>

\* Ok(())
Done == OkValue(<<>>)

\* input.bump_argument().unwrap()
SkipProgramName ==
    /\ pc = "start"
    /\ LET F(it) == unwrap(bump_argument(current, it, buf, ignore_dashes))
       IN Statement(F, "bump_argument", "main_loop", result, locals)

\* main: while !input.is_empty() { .. }, and what follows the loop
MainLoop ==
    /\ pc = "main_loop" /\ ~panicked
    /\ IF is_empty(current, buf)
       THEN /\ pc' = "returned"
            /\ result' = IF IsNone(locals.output) THEN Err("missing --out argument")
                         ELSE Done
            /\ UNCHANGED mark
       ELSE /\ pc' = "main_help"
            /\ mark' = <<Position, mark[2]>>
            /\ UNCHANGED result
    /\ UNCHANGED locals
    /\ Quiet

\* if input.eat_one_dash("h").is_some() || input.eat_two_dashes("help").is_some()
MainHelp ==
    /\ pc = "main_help"
    /\ LET F(it) == eat_flag(current, it, buf, ignore_dashes, Str_h, Str_help)
           e == F(Source(iter, AnyArg))
       IN IF IsSome(e.ret)
          THEN Statement(F, "eat_flag", "returned", Done, locals)
          ELSE Statement(F, "eat_flag", "main_verbose", result, locals)

\* the -v/--verbose flag
MainVerbose ==
    /\ pc = "main_verbose"
    /\ LET F(it) == eat_flag(current, it, buf, ignore_dashes, Str_v, Str_verbose)
           e == F(Source(iter, AnyArg))
       IN IF IsSome(e.ret)
          THEN IF locals.verbose
               THEN Statement(F, "eat_flag", "returned",
                              Err("The --verbose flag was given multiple times"),
                              locals)
               ELSE Statement(F, "eat_flag", "main_loop", result,
                              [locals EXCEPT !.verbose = TRUE])
          ELSE Statement(F, "eat_flag", "main_out", result, locals)

\* the -o/--out argument: the flag
MainOut ==
    /\ pc = "main_out"
    /\ LET F(it) == eat_flag(current, it, buf, ignore_dashes, Str_o, Str_out)
           e == F(Source(iter, AnyArg))
       IN IF IsSome(e.ret)
          THEN Statement(F, "eat_flag", "main_out_value", result, locals)
          ELSE Statement(F, "eat_flag", "main_subcommand", result, locals)

\* the -o/--out argument: if let Some(path) = input.value_allows_leading_dashes()
MainOutValue ==
    /\ pc = "main_out_value"
    /\ LET path == value_allows_leading_dashes(current, buf)
           F(it) == eat_part(path, current, it, buf, ignore_dashes)
           e == F(Source(iter, AnyArg))
       IN IF IsSome(path)
          THEN Statement(F, "eat", "main_loop", result,
                         [locals EXCEPT !.output = e.ret])
          ELSE Statement(F, "eat", "returned",
                         Err("--out expects 1 argument, none found"), locals)

\* if input.eat_no_dash("subcommand").is_some() { parse_subcommand(..) }
MainSubcommand ==
    /\ pc = "main_subcommand"
    /\ LET F(it) == eat_no_dash(current, it, buf, ignore_dashes, Str_subcommand)
           e == F(Source(iter, AnyArg))
       IN IF IsSome(e.ret)
          THEN Statement(F, "eat_no_dash", "sub_loop", result,
                         [locals EXCEPT !.sub = None])
          ELSE Statement(F, "eat_no_dash", "main_rest", result, locals)

\* if let Some(arg) = input.value_allows_leading_dashes() { return Err(..) }
MainRest ==
    /\ pc = "main_rest"
    /\ LET arg == value_allows_leading_dashes(current, buf)
           F(it) == eat_part(arg, current, it, buf, ignore_dashes)
       IN IF IsSome(arg)
          THEN Statement(F, "eat", "returned", Err("Unexpected argument"), locals)
          ELSE Statement(F, "eat", "main_loop", result, locals)

\* parse_subcommand: while !input.is_empty() { .. }, and what follows the
\* loop; main goes on with `subcommand = ..; continue` after Ok(Some(..))
SubLoop ==
    /\ pc = "sub_loop" /\ ~panicked
    /\ IF is_empty(current, buf)
       THEN /\ IF IsNone(locals.sub)
               THEN /\ pc' = "returned"
                    /\ result' = Err("subcommand is missing the --rgb argument")
                    /\ UNCHANGED locals
               ELSE /\ pc' = "main_loop"
                    /\ locals' = [locals EXCEPT !.subcommand = locals.sub]
                    /\ UNCHANGED result
            /\ UNCHANGED mark
       ELSE /\ pc' = "sub_help"
            /\ mark' = <<mark[1], Position>>
            /\ UNCHANGED <<result, locals>>
    /\ Quiet

\* parse_subcommand: the help flag returns Ok(None), on which main returns
SubHelp ==
    /\ pc = "sub_help"
    /\ LET F(it) == eat_flag(current, it, buf, ignore_dashes, Str_h, Str_help)
           e == F(Source(iter, AnyArg))
       IN IF IsSome(e.ret)
          THEN Statement(F, "eat_flag", "returned", Done,
                         [locals EXCEPT !.subcommand = None])
          ELSE Statement(F, "eat_flag", "parse_rgb", result, locals)

\* parse_rgb: if input.eat_two_dashes("rgb").is_some() { .. }; without the
\* flag it returns Ok(None) and the loop of parse_subcommand goes round
ParseRgb ==
    /\ pc = "parse_rgb"
    /\ LET F(it) == eat_two_dashes(current, it, buf, ignore_dashes, Str_rgb)
           e == F(Source(iter, AnyArg))
       IN IF IsSome(e.ret)
          THEN Statement(F, "eat_two_dashes", "rgb_value", result,
                         [locals EXCEPT !.rgb = <<>>])
          ELSE Statement(F, "eat_two_dashes", "sub_loop", result, locals)

\* the three numbers of a comma-separated list: the error, or the numbers
rgb_of_list(text) ==
    LET rgb == split(text, ",")
        n(i) == parse_u8(rgb[i])
    IN IF IsNone(n(1)) THEN [err |-> "Invalid red number", val |-> <<>>]
       ELSE IF Len(rgb) < 2 THEN [err |-> "No green part", val |-> <<>>]
       ELSE IF IsNone(n(2)) THEN [err |-> "Invalid green number", val |-> <<>>]
       ELSE IF Len(rgb) < 3 THEN [err |-> "No blue part", val |-> <<>>]
       ELSE IF IsNone(n(3)) THEN [err |-> "Invalid blue number", val |-> <<>>]
       ELSE [err |-> "", val |-> <<Unwrap(n(1)), Unwrap(n(2)), Unwrap(n(3))>>]

\* what a call returned, the empty string if it returned nothing
Text(e) == IF IsSome(e.ret) THEN Unwrap(e.ret) ELSE <<>>

\* parse_rgb, the value in the same argument: --rgb=0,70,255
RgbList ==
    /\ pc = "rgb_value"
    /\ can_parse_value_no_whitespace(current, buf)
    /\ LET v == value(current, buf)
           F(it) == eat_part(v, current, it, buf, ignore_dashes)
           e == F(Source(iter, AnyArg))
           rgb == rgb_of_list(Text(e))
       IN IF IsNone(v)
          THEN Statement(F, "eat", "returned", Err("No RGB value"), locals)
          ELSE IF rgb.err # ""
          THEN Statement(F, "eat", "returned", Err(rgb.err), locals)
          ELSE Statement(F, "eat", "sub_loop", result,
                         [locals EXCEPT !.sub = Some(rgb.val)])

\* parse_rgb, one number in an argument of its own:
\* input.value().ok_or(missing)?.eat(), then parse().map_err(|_| invalid)?
RgbNumber(missing, invalid, to) ==
    LET v == value(current, buf)
        F(it) == eat_part(v, current, it, buf, ignore_dashes)
        e == F(Source(iter, AnyArg))
        number == parse_u8(Text(e))
    IN IF IsNone(v)
       THEN Statement(F, "eat", "returned", Err(missing), locals)
       ELSE IF IsNone(number)
       THEN Statement(F, "eat", "returned", Err(invalid), locals)
       ELSE IF to = "sub_loop"
       THEN Statement(F, "eat", to, result,
                      [locals EXCEPT !.sub = Some(Append(locals.rgb, Unwrap(number)))])
       ELSE Statement(F, "eat", to, result,
                      [locals EXCEPT !.rgb = Append(locals.rgb, Unwrap(number))])

RgbRed ==
    /\ pc = "rgb_value"
    /\ ~can_parse_value_no_whitespace(current, buf)
    /\ RgbNumber("No red part", "Invalid red number", "rgb_green")

RgbGreen ==
    /\ pc = "rgb_green"
    /\ RgbNumber("No green part", "Invalid green number", "rgb_blue")

RgbBlue ==
    /\ pc = "rgb_blue"
    /\ RgbNumber("No blue part", "Invalid blue number", "sub_loop")

\* a run of the example program on an argument vector
NextExample ==
    \/ SkipProgramName
    \/ MainLoop
    \/ MainHelp
    \/ MainVerbose
    \/ MainOut
    \/ MainOutValue
    \/ MainSubcommand
    \/ MainRest
    \/ SubLoop
    \/ SubHelp
    \/ ParseRgb
    \/ RgbList
    \/ RgbRed
    \/ RgbGreen
    \/ RgbBlue

SpecExample == InitExample /\ [][NextExample]_vars

\* ------------------------------------------------------------------ claims

EatNames == {"eat_no_dash", "eat_one_dash", "eat_two_dashes", "eat_value",
             "eat_value_allows_leading_dashes"}

\* the source as a call in the current state sees it
Src == Source(iter, AnyArg)

\* C1: a non-matching eat_* call (one that returns None) leaves the cursor, the
\* buffer, the ignore-dashes flag and the raw source as they were, so current()
\* and current_str_with_leading_dashes() return the same views as before.
C1_FailedEatLeavesState ==
    [][(op' \in EatNames /\ IsNone(ret') /\ ~panicked')
        => /\ UNCHANGED core
           /\ current_view(current', buf') = current_view(current, buf)
           /\ current_str_with_leading_dashes(current', buf')
                = current_str_with_leading_dashes(current, buf)]_vars

\* a failed eat_* on a tokenizer that has text left
C1_Witness ==
    /\ op \in EatNames /\ IsNone(ret) /\ ~panicked
    /\ IsSome(current) /\ ContentView # <<>>

\* every eat_* call and every Part-producing call returns None, and so does
\* bump_argument
AllCallsReturnNone ==
    /\ \A token \in Targets :
        /\ IsNone(eat_no_dash(current, Src, buf, ignore_dashes, token).ret)
        /\ IsNone(eat_one_dash(current, Src, buf, ignore_dashes, token).ret)
        /\ IsNone(eat_two_dashes(current, Src, buf, ignore_dashes, token).ret)
        /\ IsNone(eat_value(current, Src, buf, ignore_dashes, token).ret)
        /\ IsNone(eat_value_allows_leading_dashes(current, Src, buf, ignore_dashes, token).ret)
    /\ IsNone(no_dash(current, buf))
    /\ IsNone(one_dash(current, buf))
    /\ IsNone(two_dashes(current, buf))
    /\ IsNone(value(current, buf))
    /\ IsNone(value_allows_leading_dashes(current, buf))
    /\ IsNone(bump_argument(current, Src, buf, ignore_dashes).ret)

\* C2: is_empty() holds exactly when the cursor is None, and exactly then every
\* eat_*, every Part-producing call and bump_argument returns None; in a
\* non-exhausted state at least one of them returns a result.
C2_ExhaustionEquivalence ==
    ~panicked =>
        /\ is_empty(current, buf) <=> IsNone(current)
        /\ is_not_empty(current, buf) <=> IsSome(current)
        /\ IsNone(current) <=> AllCallsReturnNone

\* the tokenizer ran dry after it had pulled arguments
C2_Witness ==
    /\ ~panicked /\ IsNone(current) /\ Len(read) = MaxArgs
    /\ is_empty(current, buf) /\ AllCallsReturnNone

RECURSIVE Flatten(_)
\* the concatenation of a sequence of strings
Flatten(ss) == IF ss = <<>> THEN <<>> ELSE Head(ss) \o Flatten(Tail(ss))

\* the offset in buf at which the k-th pulled argument was appended
ArgStart(k) == Len(Flatten(SubSeq(read, 1, k - 1)))

\* the leading dashes the ordinary dash rules strip from a raw argument
DashCount(a) ==
    IF Len(a) >= 2 /\ a[1] = "-" /\ a[2] = "-" THEN 2
    ELSE IF Len(a) >= 1 /\ a[1] = "-" THEN 1
    ELSE 0

RECURSIVE Kept(_, _)
\* the bytes of b that some commit returned (c[i] > 0), in buffer order
Kept(b, c) ==
    IF b = <<>> THEN <<>>
    ELSE (IF Head(c) > 0 THEN <<Head(b)>> ELSE <<>>) \o Kept(Tail(b), Tail(c))

\* C3: in a run from construction to exhaustion that advances only through
\* dash-exclusive commits, the returned slices concatenated in order are the
\* raw arguments with exactly the stripped leading dashes (one or two per
\* dash argument) and the skipped '=' bytes removed: every other byte of the
\* buffer is returned by exactly one commit.
C3_ConservationDashExclusive ==
    (IsNone(current) /\ ~panicked) =>
        LET h == Unwrap(hist)
        IN /\ buf = Flatten(read)
           /\ Len(h.cnt) = Len(buf)
           /\ \A i \in 1..Len(buf) : h.cnt[i] <= 1
           /\ h.out = Kept(buf, h.cnt)
           /\ \A k \in 1..Len(read) : \A j \in 1..Len(read[k]) :
                LET i == ArgStart(k) + j
                    d == DashCount(read[k])
                IN IF j <= d
                   THEN h.cnt[i] = 0
                   ELSE h.cnt[i] = 1 \/ (read[k][j] = "=" /\ d > 0)

\* an exhausted dash-exclusive run over two arguments in which a dash was
\* stripped, an '=' was skipped and bytes were returned
C3_Witness ==
    /\ IsNone(current) /\ ~panicked /\ Len(read) = 2
    /\ LET h == Unwrap(hist)
       IN /\ h.out # <<>>
          /\ \E i \in 1..Len(buf) : h.cnt[i] = 0 /\ buf[i] = "="
          /\ \E i \in 1..Len(buf) : h.cnt[i] = 0 /\ buf[i] = "-"
          /\ \E i \in 1..Len(buf) : h.cnt[i] = 1 /\ buf[i] = "="

\* C4: in a run from construction to exhaustion that advances only through
\* dash-inclusive commits (eat_value_allows_leading_dashes, InputPartLd::eat
\* with any claim length within the dash-inclusive view), the returned slices
\* concatenated in order are the concatenation of all raw arguments, and the
\* committed lengths add up to the bytes of the raw arguments consumed.
C4_ConservationDashInclusive ==
    (IsNone(current) /\ ~panicked) =>
        LET h == Unwrap(hist)
        IN /\ h.out = Flatten(read)
           /\ h.out = buf
           /\ \A i \in 1..Len(buf) : h.cnt[i] = 1

\* C5: across every sequence of public operations, neither contentStart nor
\* rawStart of the cursor ever decreases while the cursor is present.
C5_OffsetsNeverDecrease ==
    [][(IsSome(current) /\ IsSome(current'))
        => /\ contentStart(Unwrap(current')) >= contentStart(Unwrap(current))
           /\ rawStart(Unwrap(current')) >= rawStart(Unwrap(current))]_vars

\* C5 (amended): while the cursor is present rawStart never decreases and
\* contentStart never lies below rawStart; contentStart never decreases
\* across commits of either form, failed matches and bump_argument; only
\* set_ignore_dashes may move contentStart back, and never below rawStart.
C5_OffsetsMonotoneExceptModeSwitch ==
    [][(IsSome(current) /\ IsSome(current'))
        => /\ rawStart(Unwrap(current')) >= rawStart(Unwrap(current))
           /\ contentStart(Unwrap(current')) >= rawStart(Unwrap(current'))
           /\ (op' # "set_ignore_dashes"
                => contentStart(Unwrap(current')) >= contentStart(Unwrap(current)))]_vars

\* set_ignore_dashes(true) has just put a cursor back onto the leading dash
\* of an argument that follows committed bytes
C5_Witness ==
    /\ op = "set_ignore_dashes" /\ ignore_dashes /\ IsSome(current) /\ ~panicked
    /\ hi > 0
    /\ kindOf(Unwrap(current)) = NoDash
    /\ starts_with(ContentView, <<"-">>)
    /\ contentStart(Unwrap(current)) = rawStart(Unwrap(current))

\* C6: for every sequence of public operations mixing both commit forms and
\* set_ignore_dashes, no byte of the buffer is returned by more than one
\* commit, and after a commit has returned a byte neither current() nor
\* current_str_with_leading_dashes() includes that byte again.
C6_NoCommittedByteRevisited ==
    /\ ~revisit
    /\ (IsSome(current) /\ ~panicked)
        => /\ contentStart(Unwrap(current)) >= hi
           /\ rawStart(Unwrap(current)) >= hi

\* bytes have been returned by both commit forms, the mode has been switched
\* and the cursor rests inside an argument
C6_Witness ==
    /\ hi > 0 /\ ~panicked /\ IsSome(current) /\ ignore_dashes
    /\ op = "bump_with_leading_dashes" /\ IsSome(ret) /\ Unwrap(ret) # <<>>
    /\ ~pulled /\ ContentView # <<>>
    /\ rawStart(Unwrap(current)) = hi

\* C7: bump(len) with len not exceeding the remaining content length returns
\* exactly the len bytes of the buffer starting at the contentStart held
\* before the call; when the commit stays inside the raw argument the new
\* contentStart is the old one + len, plus exactly 1 if and only if an '=' at
\* that position was skipped by equals classification.
C7_BumpReturnsExactBytes ==
    [][\A len \in Lens(ContentView) :
        (op' = "bump" /\ IsSome(current) /\ len <= Len(ContentView) /\ Bump(len))
        => LET c == contentStart(Unwrap(current))
               kind == kindOf(Unwrap(current))
               skipped == /\ kind \in {OneDash, TwoDashes, AfterOneDash}
                          /\ buf[c + len + 1] = "="
           IN /\ ~panicked'
              /\ ret' = Some(Slice(buf, c, c + len))
              /\ Len(Unwrap(ret')) = len
              /\ len < Len(ContentView)
                  => /\ buf' = buf /\ iter' = iter /\ ~pulled'
                     /\ IsSome(current')
                     /\ contentStart(Unwrap(current'))
                            = c + len + (IF skipped THEN 1 ELSE 0)
                     /\ skipped <=> kindOf(Unwrap(current')) = AfterEquals
                                    /\ kind # AfterEquals]_vars

\* a bump has returned bytes from inside an argument and skipped the '=' that
\* followed them
C7_Witness ==
    /\ op = "bump" /\ ~panicked /\ ~pulled
    /\ IsSome(ret) /\ Unwrap(ret) # <<>>
    /\ IsSome(current) /\ kindOf(Unwrap(current)) = AfterEquals
    /\ contentStart(Unwrap(current)) = hi + 1
    /\ buf[hi + 1] = "="

CommitNames == EatNames \cup {"bump", "bump_with_leading_dashes", "bump_argument", "eat"}

\* C8: after every successful bump or bump_with_leading_dashes, including the
\* automatic skipping of a following '=', if no byte of the current raw
\* argument remains then the next raw argument has been read (or the
\* tokenizer is exhausted): the tokenizer never rests on an empty remainder
\* of an argument it has partly consumed.
C8_NeverRestsOnEmptyRemainder ==
    (op \in CommitNames /\ IsSome(ret) /\ ~panicked /\ IsSome(current)
        /\ contentStart(Unwrap(current)) >= Len(buf))
    => pulled

C10_FreshArgumentClassification ==
    (pulled /\ IsSome(current) /\ ~ignore_dashes /\ ~panicked)
    => LET a == read[Len(read)]
           cur == Unwrap(current)
           start == Len(buf) - Len(a)
       IN /\ Len(read) > 0
          /\ SliceFrom(buf, start) = a
          /\ rawStart(cur) = start
          /\ IF Len(a) >= 2 /\ a[1] = "-" /\ a[2] = "-"
             THEN kindOf(cur) = TwoDashes /\ contentStart(cur) = start + 2
             ELSE IF Len(a) >= 1 /\ a[1] = "-"
             THEN kindOf(cur) = OneDash /\ contentStart(cur) = start + 1
             ELSE kindOf(cur) = NoDash /\ contentStart(cur) = start

\* a commit has pulled an argument of three dashes or more behind earlier
\* bytes
C10_Witness ==
    /\ pulled /\ IsSome(current) /\ ~ignore_dashes /\ ~panicked
    /\ op \in CommitNames /\ IsSome(ret)
    /\ rawStart(Unwrap(current)) > 0
    /\ kindOf(Unwrap(current)) = TwoDashes
    /\ starts_with(ContentView, <<"-">>)

\* the kinds in which an '=' behind committed bytes is skipped
DashNameKinds == {OneDash, TwoDashes, AfterOneDash}

\* C11: equals classification after a partial commit follows the transition
\* table for every kind and every next byte: NoDash and AfterEquals stay as
\* they are and never skip an '='; OneDash becomes AfterEquals (skipping the
\* '=') before an '=' and AfterOneDash otherwise; TwoDashes and AfterOneDash
\* become AfterEquals (skipping the '=') before an '=' and stay as they are
\* otherwise; at most one '=' is skipped per commit. The next byte is the one
\* at contentStart + len, the offset the classification is run at.
C11_EqualsClassificationTable ==
    [][(op' \in CommitNames /\ IsSome(ret') /\ ~pulled' /\ ~panicked' /\ IsSome(current))
        => LET k == kindOf(Unwrap(current))
               p == contentStart(Unwrap(current)) + Len(Unwrap(ret'))
               eq == p < Len(buf) /\ buf[p + 1] = "="
           IN /\ current' = Some(IF k \in DashNameKinds /\ eq
                                 THEN <<p + 1, p + 1, AfterEquals>>
                                 ELSE <<p, p, IF k = OneDash THEN AfterOneDash ELSE k>>)
              /\ trim_equals(<<"=", "=">>, 0, k)
                    = (IF k \in DashNameKinds THEN <<1, 1, AfterEquals>> ELSE <<0, 0, k>>)]_vars

\* a partial commit inside a two-dash name that is not followed by '=': the
\* kind stays TwoDashes
C11_Witness ==
    /\ op = "bump" /\ IsSome(ret) /\ Unwrap(ret) # <<>> /\ ~pulled /\ ~panicked
    /\ IsSome(current) /\ kindOf(Unwrap(current)) = TwoDashes
    /\ contentStart(Unwrap(current)) = rawStart(Unwrap(current))
    /\ ContentView # <<>> /\ Head(ContentView) # "="

\* this step consumed the rest of the current raw argument: the source was
\* asked for the next one, which is now the current token behind the bytes
\* of the buffer, or the tokenizer is exhausted
MovedOn ==
    /\ pulled' /\ ~panicked'
    /\ IF iter = 0
       THEN IsNone(current') /\ buf' = buf /\ iter' = 0
       ELSE /\ IsSome(current')
            /\ rawStart(Unwrap(current')) = Len(buf)
            /\ iter' = iter - 1
            /\ buf' = buf \o read'[Len(read')]

\* C12: eat_no_dash(t) succeeds if and only if the kind is NoDash and the
\* whole current view equals t exactly (a proper prefix of the view, or the
\* same text behind dashes, does not match); on success it returns t and the
\* tokenizer moves to the next raw argument or becomes exhausted.
C12_EatNoDashExactMatch ==
    [][\A token \in Targets :
        (op' = "eat_no_dash" /\ EatNoDash(token))
        => /\ IsSome(ret') <=> /\ IsSome(current)
                               /\ kindOf(Unwrap(current)) = NoDash
                               /\ ContentView = token
           /\ IsSome(ret') => ret' = Some(token) /\ MovedOn]_vars

\* eat_no_dash has returned a non-empty token and a further argument became
\* the current one
C12_Witness ==
    /\ op = "eat_no_dash" /\ IsSome(ret) /\ Unwrap(ret) # <<>> /\ ~panicked
    /\ pulled /\ IsSome(current)
    /\ rawStart(Unwrap(current)) = hi

\* this step committed exactly n bytes of the content view: all of it and the
\* tokenizer moved on, or a part of it and the cursor stays in the argument,
\* n bytes further (one more if an '=' was skipped)
CommittedExactly(n) ==
    /\ ~panicked'
    /\ ret' = Some(SubSeq(ContentView, 1, n))
    /\ IF n = Len(ContentView)
       THEN MovedOn
       ELSE /\ ~pulled' /\ buf' = buf /\ iter' = iter
            /\ IsSome(current')
            /\ contentStart(Unwrap(current')) - contentStart(Unwrap(current)) \in {n, n + 1}
            /\ contentStart(Unwrap(current')) = contentStart(Unwrap(current)) + n + 1
                => buf[contentStart(Unwrap(current)) + n + 1] = "="

\* C13: eat_one_dash(t) succeeds if and only if the kind is OneDash or
\* AfterOneDash and the current view starts with t; it commits exactly len(t)
\* bytes (not the whole view), so a bundle can be peeled name by name, and it
\* never succeeds in kind NoDash, TwoDashes or AfterEquals.
C13_EatOneDashPrefixMatch ==
    [][\A token \in Targets :
        (op' = "eat_one_dash" /\ EatOneDash(token))
        => /\ IsSome(ret') <=> /\ IsSome(current)
                               /\ kindOf(Unwrap(current)) \in {OneDash, AfterOneDash}
                               /\ starts_with(ContentView, token)
           /\ IsSome(ret') => /\ ret' = Some(token)
                              /\ CommittedExactly(Len(token))
           /\ (IsSome(current) /\ kindOf(Unwrap(current)) \in {NoDash, TwoDashes, AfterEquals})
                => IsNone(ret') /\ UNCHANGED core]_vars

\* a name was peeled off a bundle whose first name had been eaten before, and
\* more of the bundle is left
C13_Witness ==
    /\ op = "eat_one_dash" /\ IsSome(ret) /\ Unwrap(ret) # <<>> /\ ~panicked /\ ~pulled
    /\ IsSome(current) /\ kindOf(Unwrap(current)) = AfterOneDash
    /\ ContentView # <<>>
    /\ contentStart(Unwrap(current)) = hi

\* C14: eat_two_dashes(t) succeeds if and only if the kind is TwoDashes and
\* the current view either equals t exactly or consists of t followed
\* immediately by '='; it commits exactly len(t) bytes and never the '='
\* itself, which is skipped afterwards by equals classification so that the
\* value after it is the next view with kind AfterEquals; a proper prefix of
\* the name does not match.
C14_EatTwoDashesNameMatch ==
    [][\A token \in Targets :
        (op' = "eat_two_dashes" /\ EatTwoDashes(token))
        => /\ IsSome(ret') <=> /\ IsSome(current)
                               /\ kindOf(Unwrap(current)) = TwoDashes
                               /\ \/ ContentView = token
                                  \/ starts_with(ContentView, token \o <<"=">>)
           /\ IsSome(ret')
                => /\ ret' = Some(token)
                   /\ CommittedExactly(Len(token))
                   /\ ContentView # token
                        => /\ kindOf(Unwrap(current')) = AfterEquals
                           /\ current_view(current', buf')
                                = Some(<<SliceFrom(ContentView, Len(token) + 1), AfterEquals>>)]_vars

\* a two-dash name was eaten in front of '=' and the value behind the '=' is
\* the current view
C14_Witness ==
    /\ op = "eat_two_dashes" /\ IsSome(ret) /\ Unwrap(ret) # <<>> /\ ~panicked /\ ~pulled
    /\ IsSome(current) /\ kindOf(Unwrap(current)) = AfterEquals
    /\ ContentView # <<>>
    /\ buf[contentStart(Unwrap(current))] = "="

\* C15: eat_value(t) succeeds if and only if the kind is NoDash, AfterOneDash
\* or AfterEquals and the whole current view equals t exactly; in kind
\* OneDash or TwoDashes it returns None for every t, so a raw argument that
\* starts with a dash is never eaten as a value from its beginning, while a
\* value that follows a consumed name or '=' may itself start with dashes.
C15_EatValueExactMatch ==
    [][\A token \in Targets :
        (op' = "eat_value" /\ EatValue(token))
        => /\ IsSome(ret') <=> /\ IsSome(current)
                               /\ kindOf(Unwrap(current)) \in {NoDash, AfterOneDash, AfterEquals}
                               /\ ContentView = token
           /\ IsSome(ret') => ret' = Some(token) /\ MovedOn
           /\ (IsSome(current) /\ kindOf(Unwrap(current)) \in {OneDash, TwoDashes})
                => IsNone(ret') /\ UNCHANGED core]_vars

\* with ignore-dashes off, eat_value has returned a value that starts with a
\* dash and stood right behind an '='
C15_Witness ==
    /\ op = "eat_value" /\ ret = Some(<<"-">>) /\ ~panicked /\ ~ignore_dashes
    /\ hi >= 2 /\ buf[hi] = "-" /\ buf[hi - 1] = "="
    /\ pulled

\* C16: eat_value_allows_leading_dashes(t) succeeds, in any kind, if and only
\* if the dash-inclusive view (the buffer from rawStart to its end) equals t
\* exactly; on success it returns t including any leading dashes and the
\* tokenizer moves to the next raw argument; after a name and '=' were
\* consumed the dash-inclusive view starts after them.
C16_EatValueAllowsLeadingDashesMatch ==
    [][\A token \in Targets :
        (op' = "eat_value_allows_leading_dashes" /\ EatValueAllowsLeadingDashes(token))
        => /\ ~panicked'
           /\ IsSome(ret') <=> /\ IsSome(current)
                               /\ SliceFrom(buf, rawStart(Unwrap(current))) = token
           /\ IsSome(ret') => ret' = Some(token) /\ MovedOn
           /\ (IsSome(current) /\ kindOf(Unwrap(current)) \in {AfterOneDash, AfterEquals})
                => RawView = ContentView]_vars

\* with ignore-dashes off, a raw argument that is a single dash was returned
\* whole, its dash included
C16_Witness ==
    /\ op = "eat_value_allows_leading_dashes" /\ ret = Some(<<"-">>)
    /\ ~panicked /\ ~ignore_dashes /\ pulled
    /\ \E k \in 1..Len(read) : read[k] = <<"-">> /\ ArgStart(k) = hi - 1

\* C17: the single-dash and double-dash classes never match each other's
\* predicates: in every reachable state of kind OneDash or AfterOneDash,
\* eat_two_dashes(t) and two_dashes() return None for every t, and in every
\* reachable state of kind TwoDashes, eat_one_dash(t) and one_dash() return
\* None for every t.
C17_DashClassesDisjoint ==
    IsSome(current) =>
        /\ kindOf(Unwrap(current)) \in {OneDash, AfterOneDash}
            => /\ IsNone(two_dashes(current, buf))
               /\ \A token \in Targets :
                    LET e == eat_two_dashes(current, Src, buf, ignore_dashes, token)
                    IN IsNone(e.ret) /\ e.current = current /\ ~e.pulled
        /\ kindOf(Unwrap(current)) = TwoDashes
            => /\ IsNone(one_dash(current, buf))
               /\ \A token \in Targets :
                    LET e == eat_one_dash(current, Src, buf, ignore_dashes, token)
                    IN IsNone(e.ret) /\ e.current = current /\ ~e.pulled

\* inside a one-dash bundle, in front of text that a two-dash predicate would
\* accept by its bytes (a name followed by '=')
C17_Witness ==
    /\ IsSome(current) /\ ~panicked
    /\ kindOf(Unwrap(current)) = AfterOneDash
    /\ ContentView = <<"a", "=">>
    /\ IsSome(eat_one_dash(current, Src, buf, ignore_dashes, <<"a">>).ret)

\* C18: from the moment set_ignore_dashes(true) returns until
\* set_ignore_dashes(false) is called, in every reachable non-exhausted state
\* the kind is NoDash and contentStart = rawStart (the content view equals
\* the dash-inclusive view), for the current argument and for every raw
\* argument pulled later; eat_one_dash, eat_two_dashes, one_dash() and
\* two_dashes() return None for every target.
C18_IgnoreDashesMode ==
    (ignore_dashes /\ IsSome(current) /\ ~panicked) =>
        /\ kindOf(Unwrap(current)) = NoDash
        /\ contentStart(Unwrap(current)) = rawStart(Unwrap(current))
        /\ ContentView = RawView
        /\ IsNone(one_dash(current, buf))
        /\ IsNone(two_dashes(current, buf))
        /\ \A token \in Targets :
            /\ IsNone(eat_one_dash(current, Src, buf, ignore_dashes, token).ret)
            /\ IsNone(eat_two_dashes(current, Src, buf, ignore_dashes, token).ret)

\* in ignore-dashes mode a commit has pulled a raw argument that starts with
\* a dash: it is NoDash text with its dash in the view
C18_Witness ==
    /\ ignore_dashes /\ IsSome(current) /\ ~panicked
    /\ pulled /\ op \in CommitNames
    /\ kindOf(Unwrap(current)) = NoDash
    /\ ContentView = read[Len(read)]
    /\ starts_with(ContentView, <<"-", "a">>)
    /\ IsSome(no_dash(current, buf))

\* C19: when set_ignore_dashes(false) is called in a non-exhausted state in
\* which ignore-dashes was on, rawStart is unchanged and the remaining text
\* starting at rawStart is re-classified by the ordinary dash rules:
\* TwoDashes with contentStart = rawStart + 2 if it starts with `--`, OneDash
\* with contentStart = rawStart + 1 if it starts with a single `-`, NoDash
\* with contentStart = rawStart otherwise; the buffer and the raw source are
\* untouched.
C19_ToggleOffReclassifies ==
    [][(op' = "set_ignore_dashes" /\ ignore_dashes /\ ~ignore_dashes'
            /\ IsSome(current) /\ SetIgnoreDashes(FALSE))
        => LET r == rawStart(Unwrap(current))
               text == SliceFrom(buf, r)
           IN /\ buf' = buf /\ iter' = iter /\ ~panicked'
              /\ current' =
                    Some(IF Len(text) >= 2 /\ text[1] = "-" /\ text[2] = "-"
                         THEN <<r + 2, r, TwoDashes>>
                         ELSE IF Len(text) >= 1 /\ text[1] = "-"
                         THEN <<r + 1, r, OneDash>>
                         ELSE <<r, r, NoDash>>)]_vars

\* the mode was switched off on an argument of two dashes or more that was
\* pulled in ignore-dashes mode behind committed bytes
C19_Witness ==
    /\ op = "set_ignore_dashes" /\ toggled /\ ~ignore_dashes /\ ~panicked
    /\ IsSome(current) /\ kindOf(Unwrap(current)) = TwoDashes
    /\ hi > 0 /\ rawStart(Unwrap(current)) = hi
    /\ contentStart(Unwrap(current)) = hi + 2

\* this step aborted without any effect on the tokenizer: nothing was
\* returned, the cursor, the buffer and the mode are as before and the source
\* was not pulled
AbortedWithoutEffect ==
    /\ panicked' /\ IsNone(ret') /\ ~pulled'
    /\ UNCHANGED core
    /\ UNCHANGED <<read, hi, revisit>>

\* C20: programmer-contract violations are fatal and leave no partial effect:
\* bump(len) or bump_with_leading_dashes(len) with len greater than the
\* remaining length of its view, or a commit on an exhausted tokenizer,
\* panics instead of returning a value, and at the point of abort the cursor
\* has not advanced, the buffer has not grown and the raw source has not been
\* pulled.
C20_ContractViolationsAbortCleanly ==
    [][/\ \A len \in Lens(ContentView) :
            (op' = "bump" /\ (IsNone(current) \/ len > Len(ContentView)) /\ Bump(len))
            => AbortedWithoutEffect
       /\ \A len \in Lens(RawView) :
            (op' = "bump_with_leading_dashes" /\ (IsNone(current) \/ len > Len(RawView))
                /\ BumpWithLeadingDashes(len))
            => AbortedWithoutEffect]_vars

\* a bump past the end of the view has aborted in the middle of an argument,
\* after earlier commits
C20_Witness ==
    /\ panicked /\ op = "bump" /\ IsNone(ret) /\ ~pulled
    /\ IsSome(current) /\ hi > 0 /\ ContentView # <<>>
    /\ contentStart(Unwrap(current)) = hi

\* C21: the two commit forms stay mutually consistent: in every reachable
\* state, bump_with_leading_dashes(len) with 0 <= len <= buffer length -
\* rawStart completes without a fatal failure, returns the len bytes starting
\* at rawStart, and when it stays inside the raw argument leaves the cursor
\* exactly len bytes past the old rawStart (plus 1 if an '=' at that position
\* is skipped), also when the kind is OneDash or TwoDashes and len is smaller
\* than the whole dash-inclusive remainder.
C21_CommitFormsConsistent ==
    [][\A len \in Lens(RawView) :
        (op' = "bump_with_leading_dashes" /\ IsSome(current) /\ len <= Len(RawView)
            /\ BumpWithLeadingDashes(len))
        => LET r == rawStart(Unwrap(current))
           IN /\ ~panicked'
              /\ ret' = Some(Slice(buf, r, r + len))
              /\ len < Len(RawView)
                  => /\ IsSome(current') /\ buf' = buf /\ ~pulled'
                     /\ rawStart(Unwrap(current')) - (r + len) \in {0, 1}
                     /\ contentStart(Unwrap(current')) = rawStart(Unwrap(current'))
                     /\ rawStart(Unwrap(current')) = r + len + 1
                          => buf[r + len + 1] = "="]_vars

\* the Part a Part-producing step has to return when its precondition pre
\* holds (dash-inclusive if ld), None otherwise, and nothing else changes
ReturnsPartIff(pre, ld) ==
    /\ UNCHANGED core /\ ~panicked'
    /\ IsSome(part') <=> pre
    /\ IsSome(part')
        => part' = Some([ld |-> ld,
                         len |-> IF ld THEN Len(RawView) ELSE Len(ContentView)])

\* C22: Part-producing operations return a Part exactly when their
\* precondition holds and otherwise return None without changing state:
\* no_dash() iff kind is NoDash, one_dash() iff OneDash, two_dashes() iff
\* TwoDashes, value() iff NoDash, AfterOneDash or AfterEquals,
\* value_allows_leading_dashes() iff the tokenizer is not exhausted; the
\* initial claim of a Part is the whole remaining view (dash-exclusive for
\* InputPart, dash-inclusive for InputPartLd).
C22_PartCreationPreconditions ==
    [][op' = "part" =>
        LET k == IF IsSome(current) THEN kindOf(Unwrap(current)) ELSE "exhausted"
        IN /\ NoDashPart => ReturnsPartIff(k = NoDash, FALSE)
           /\ OneDashPart => ReturnsPartIff(k = OneDash, FALSE)
           /\ TwoDashesPart => ReturnsPartIff(k = TwoDashes, FALSE)
           /\ ValuePart => ReturnsPartIff(k \in {NoDash, AfterOneDash, AfterEquals}, FALSE)
           /\ ValueLdPart => ReturnsPartIff(IsSome(current), TRUE)]_vars

\* a dash-inclusive Part was handed out on a fresh two-dash argument behind
\* committed bytes: it claims the dashes too
C22_Witness ==
    /\ op = "part" /\ IsSome(part) /\ ~panicked /\ hi > 0
    /\ IsSome(current) /\ kindOf(Unwrap(current)) = TwoDashes
    /\ Unwrap(part).ld
    /\ Unwrap(part).len = Len(RawView)
    /\ Len(RawView) = Len(ContentView) + 2

\* the answers of the reading methods of the tokenizer
Reads(cur, b) ==
    <<current_view(cur, b), current_str_with_leading_dashes(cur, b),
      is_empty(cur, b), is_not_empty(cur, b),
      can_parse_value_no_whitespace(cur, b), can_parse_dash_argument(cur, b)>>

\* C23: only commit mutates: creating a Part and calling take, take_char or
\* take_until on it (as_str, len and is_empty are reads of the Part), for
\* both InputPart and InputPartLd, leave the cursor, the buffer, the
\* ignore-dashes flag and the raw source unchanged, and so do the reading
\* methods of the tokenizer, whose answers depend on these fields only;
\* dropping a Part without eat() leaves the tokenizer exactly as before the
\* Part was created.
C23_OnlyCommitMutates ==
    [][(\/ /\ op' = "part" /\ IsNone(part)
           /\ (NoDashPart \/ OneDashPart \/ TwoDashesPart \/ ValuePart \/ ValueLdPart)
        \/ /\ IsSome(part)
           /\ \/ \E len \in Lens(RawView) : Take(len)
              \/ TakeChar
              \/ \E ch \in Alphabet : TakeUntil(ch)
              \/ Drop)
        => /\ UNCHANGED core
           /\ UNCHANGED <<read, hi, revisit>>
           /\ Reads(current', buf') = Reads(current, buf)]_vars

\* a Part of the content view was refined to a shorter claim in the middle
\* of an argument
C23_Witness ==
    /\ op = "part" /\ IsSome(part) /\ ~panicked /\ hi > 0
    /\ ~Unwrap(part).ld
    /\ Unwrap(part).len = 1
    /\ Len(ContentView) > 1

Min(a, b) == IF a <= b THEN a ELSE b

\* C24: take(n) only ever shrinks a claim: for every Part with claim length L
\* and every n, the Part returned by take(n) has claim length min(n, L), so a
\* Part obtained from the tokenizer and refined by any sequence of take,
\* take_char and take_until stays within its view and can be committed with
\* eat() without an out-of-bounds failure.
C24_TakeOnlyShrinks ==
    [][IsSome(part) =>
        \A len \in Lens(part_view(Unwrap(part), current, buf)) :
            Take(len)
            => /\ IsSome(part')
               /\ Unwrap(part').len = Min(len, Unwrap(part).len)
               /\ ~as_str_panics(Unwrap(part'), current', buf')
               /\ ~eat(Unwrap(part'), current', Src', buf', ignore_dashes').panic]_vars

\* C25: bump_argument bumps the current argument completely including
\* leading dashes: on a non-exhausted tokenizer it returns the whole
\* remaining text of the current raw argument with its leading dashes, i.e.
\* the value current_str_with_leading_dashes() had immediately before the
\* call.
C25_BumpArgumentReturnsRawText ==
    [][(op' = "bump_argument" /\ IsSome(current) /\ BumpArgument)
        => /\ ~panicked'
           /\ ret' = current_str_with_leading_dashes(current, buf)]_vars

\* the raw arguments not yet fully consumed, the current one included
Remaining == IF IsSome(current) THEN iter + 1 ELSE 0

\* C26: bump_argument always finishes the current raw argument: from every
\* non-exhausted state, whatever the kind and however much of the argument
\* was consumed, it succeeds and leaves the cursor at the start of the next
\* raw argument (freshly classified) or exhausted, so each call lowers the
\* number of raw arguments not yet fully consumed by exactly one and k calls
\* reach is_empty(); after that bump_argument returns None and changes
\* nothing.
C26_BumpArgumentFinishesArgument ==
    [][(op' = "bump_argument" /\ BumpArgument)
        => IF IsSome(current)
           THEN /\ IsSome(ret') /\ MovedOn
                /\ Remaining' = Remaining - 1
                /\ is_empty(current', buf') <=> Remaining = 1
                /\ IsSome(current')
                    => LET a == read'[Len(read')]
                           d == IF ignore_dashes THEN 0 ELSE DashCount(a)
                       IN current' = Some(<<Len(buf) + d, Len(buf),
                                            CASE d = 0 -> NoDash
                                              [] d = 1 -> OneDash
                                              [] d = 2 -> TwoDashes>>)
           ELSE /\ IsNone(ret') /\ ~panicked' /\ ~pulled'
                /\ UNCHANGED core
                /\ Remaining' = 0]_vars

\* bump_argument was called in the middle of the first argument and landed
\* on a freshly classified two-dash argument
C26_Witness ==
    /\ op = "bump_argument" /\ IsSome(ret) /\ ~panicked /\ pulled
    /\ Len(read) = 2 /\ IsSome(current)
    /\ kindOf(Unwrap(current)) = TwoDashes
    /\ rawStart(Unwrap(current)) = Len(read[1])
    /\ Len(Unwrap(ret)) >= 1
    /\ Len(Unwrap(ret)) + DashCount(read[1]) < Len(read[1])

\* C27: can_parse_value_no_whitespace() returns true exactly when a
\* single-dash flag name or an equals sign has just been consumed inside the
\* current raw argument and there are remaining bytes in that same argument;
\* in particular it returns false whenever the current view is empty.
C27_CanParseValueNeedsRemainingBytes ==
    ~panicked =>
        (can_parse_value_no_whitespace(current, buf)
            <=> /\ IsSome(current)
                /\ kindOf(Unwrap(current)) \in {AfterOneDash, AfterEquals}
                /\ ContentView # <<>>)

\* what holds of a tokenizer's life in every state: right after construction
\* exactly one argument was asked for and the tokenizer is exhausted iff the
\* source had none; the cursor is None only when the source has reported
\* its end
LifecycleState ==
    /\ op = "new" => /\ pulled /\ Len(read) <= 1 /\ buf = Flatten(read)
                     /\ IsNone(current) <=> read = <<>>
    /\ IsNone(current) => iter = 0

\* C28: construction eagerly pulls exactly one raw argument and starts
\* exhausted if the source is empty; once the cursor is None it remains None
\* under every later operation (eat_*, Part-producing calls, bump_argument,
\* set_ignore_dashes with either value), and the raw source is never polled
\* again after it has reported exhaustion.
C28_Lifecycle ==
    [][/\ LifecycleState /\ LifecycleState'
       /\ IsNone(current)
            => /\ IsNone(current') /\ ~pulled'
               /\ iter' = iter /\ buf' = buf /\ read' = read]_vars

\* the mode was switched on an exhausted tokenizer that has consumed all the
\* arguments of its source
C28_Witness ==
    /\ IsNone(current) /\ ~panicked /\ iter = 0
    /\ op = "set_ignore_dashes" /\ toggled
    /\ Len(read) = MaxArgs

\* the step is a commit that returned bytes: a bump, a
\* bump_with_leading_dashes, or a call built on one of them that matched
Committed == op' \in CommitNames /\ IsSome(ret') /\ ~panicked'

\* the commit of the step is measured against the view with the dashes
MeasuredWithDashes ==
    \/ op' \in {"bump_with_leading_dashes", "eat_value_allows_leading_dashes"}
    \/ op' = "eat" /\ IsSome(part) /\ Unwrap(part).ld

\* the source was asked once: its next argument, if any, is appended to the
\* buffer and classified at the previous buffer length
PulledOnce ==
    IF iter = 0
    THEN IsNone(current') /\ buf' = buf /\ iter' = 0 /\ read' = read
    ELSE /\ iter' = iter - 1
         /\ Len(read') = Len(read) + 1
         /\ SubSeq(read', 1, Len(read)) = read
         /\ LET a == read'[Len(read')]
                dashes == IF ignore_dashes THEN 0 ELSE DashCount(a)
            IN /\ buf' = buf \o a
               /\ current' = Some(<<Len(buf) + dashes, Len(buf),
                                    IF dashes = 2 THEN TwoDashes
                                    ELSE IF dashes = 1 THEN OneDash
                                    ELSE NoDash>>)

C30_CursorWithinBuffer ==
    IsSome(current)
        => /\ rawStart(Unwrap(current)) <= contentStart(Unwrap(current))
           /\ contentStart(Unwrap(current)) <= Len(buf)


\* the bytes between rawStart and contentStart
Skipped == contentStart(Unwrap(current)) - rawStart(Unwrap(current))

\* C31: in every reachable state with a present cursor, contentStart -
\* rawStart is 0, 1 or 2; it is 1 if and only if the kind is OneDash; it is 2
\* only if the kind is TwoDashes; and contentStart = rawStart whenever the
\* kind is NoDash, AfterOneDash or AfterEquals.
C31_KindMatchesSkippedBytes ==
    IsSome(current)
        => /\ Skipped \in {0, 1, 2}
           /\ Skipped = 1 <=> kindOf(Unwrap(current)) = OneDash
           /\ Skipped = 2 => kindOf(Unwrap(current)) = TwoDashes
           /\ kindOf(Unwrap(current)) \in {NoDash, AfterOneDash, AfterEquals}
                => Skipped = 0

\* the positional mode was switched off in front of a single dash that is
\* not the first byte of its argument
C31_Witness ==
    /\ op = "set_ignore_dashes" /\ toggled /\ ~ignore_dashes /\ ~panicked
    /\ IsSome(current)
    /\ kindOf(Unwrap(current)) = OneDash /\ Skipped = 1
    /\ rawStart(Unwrap(current)) > Len(buf) - Len(read[Len(read)])


\* C32: after any sequence of operations including set_ignore_dashes calls,
\* whenever the kind is OneDash the byte at rawStart is '-' and the content
\* view does not start with '-' (exactly one leading dash), and whenever the
\* kind is TwoDashes with contentStart = rawStart + 2 the two bytes at
\* rawStart are `--`; whenever the kind is NoDash at the start of a raw
\* argument pulled while ignore-dashes was off and never toggled since (here:
\* pulled by the last operation), the argument does not start with '-'.
C32_KindMatchesText ==
    (IsSome(current) /\ ~panicked)
        => LET cur == Unwrap(current)
               raw == SliceFrom(buf, rawStart(cur))
           IN /\ kindOf(cur) = OneDash
                    => /\ starts_with(raw, <<"-">>)
                       /\ ~starts_with(ContentView, <<"-">>)
              /\ (kindOf(cur) = TwoDashes /\ Skipped = 2)
                    => starts_with(raw, <<"-", "-">>)
              /\ (kindOf(cur) = NoDash /\ pulled /\ ~ignore_dashes)
                    => ~starts_with(raw, <<"-">>)


\* C33: in every reachable state the buffer is exactly the concatenation, in
\* order and without separators, of all raw arguments pulled from the source
\* so far; every operation leaves the existing buffer prefix unchanged and
\* only a full-consumption commit appends (exactly one raw argument).
C33_BufferIsSourcePrefix ==
    [][/\ buf = Flatten(read) /\ buf' = Flatten(read')
       /\ Len(buf') >= Len(buf) /\ SubSeq(buf', 1, Len(buf)) = buf
       /\ buf' # buf \/ read' # read
            => /\ Committed /\ pulled'
               /\ Len(Unwrap(ret'))
                    = IF MeasuredWithDashes
                      THEN Len(buf) - rawStart(Unwrap(current))
                      ELSE Len(buf) - contentStart(Unwrap(current))
               /\ Len(read') = Len(read) + 1
               /\ buf' = buf \o read'[Len(read')]]_vars

\* the buffer holds two non-empty arguments, the second appended by a commit
\* that consumed the rest of the first
C33_Witness ==
    /\ op \in CommitNames /\ pulled /\ ~panicked
    /\ Len(read) = 2 /\ read[1] # <<>> /\ read[2] # <<>>
    /\ buf = read[1] \o read[2]
    /\ IsSome(ret) /\ Unwrap(ret) # <<>>


\* the view a Part measures its claim against, and the bytes it claims
PartView == IF Unwrap(part).ld THEN RawView ELSE ContentView
Claim == SubSeq(PartView, 1, Unwrap(part).len)

\* C34: take_char returns None iff the claim is empty and otherwise a claim
\* of exactly the first Unicode scalar; take_until(c) returns a claim ending
\* just before the first occurrence of c inside the current claim, or the
\* unchanged claim if c does not occur in it; committing the refined Part
\* returns exactly that prefix and leaves the delimiter as the first byte of
\* the remaining view, except that a delimiter '=' is skipped when the kind
\* is OneDash, TwoDashes or AfterOneDash.
C34_TakeCharTakeUntilRefine ==
    [][(IsSome(part) /\ ~panicked /\ Unwrap(part).len <= Len(PartView))
        => LET p == Unwrap(part)
           IN /\ (op' = op /\ TakeChar)
                    => IF Claim = <<>>
                       THEN IsNone(part')
                       ELSE /\ IsSome(part') /\ ~panicked'
                            /\ Unwrap(part').ld = p.ld
                            /\ Unwrap(part').len = 1
              /\ \A ch \in Alphabet :
                    (op' = op /\ TakeUntil(ch))
                    => LET q == Unwrap(part')
                       IN /\ IsSome(part') /\ ~panicked'
                          /\ q.ld = p.ld /\ q.len <= p.len
                          /\ \A i \in 1..q.len : Claim[i] # ch
                          /\ q.len < p.len => Claim[q.len + 1] = ch
              \* the claim ends just before a byte that does not occur in it:
              \* it is what take_until of that byte yields
              /\ (/\ op' = "eat" /\ p.len < Len(PartView)
                  /\ \A i \in 1..p.len : Claim[i] # PartView[p.len + 1])
                    => /\ ~panicked'
                       /\ ret' = Some(Claim)
                       /\ ContentView'
                            = IF /\ PartView[p.len + 1] = "="
                                 /\ kindOf(Unwrap(current)) \in DashNameKinds
                              THEN SubSeq(PartView, p.len + 2, Len(PartView))
                              ELSE SubSeq(PartView, p.len + 1, Len(PartView))]_vars


\* the cursor is the one a freshly pulled single-dash argument gets: rawStart
\* on the first byte of the last argument read, a '-', contentStart behind it
OnUntouchedOneDash ==
    /\ Len(read) > 0
    /\ LET start == Len(buf) - Len(read[Len(read)])
       IN /\ current = Some(<<start + 1, start, OneDash>>)
          /\ buf[start + 1] = "-"

\* C35: in any run without set_ignore_dashes calls, whenever the kind is
\* OneDash no commit has yet been applied to the current raw argument
\* (rawStart is the first byte of that argument); every commit that stays
\* inside the argument, even one of length 0 such as eat_one_dash(""), turns
\* a OneDash cursor into AfterOneDash or AfterEquals.
C35_OneDashOnlyOnUntouchedArgument ==
    [][/\ (IsSome(current) /\ kindOf(Unwrap(current)) = OneDash)
            => /\ OnUntouchedOneDash
               /\ (Committed /\ ~pulled')
                    => /\ IsSome(current')
                       /\ kindOf(Unwrap(current')) \in {AfterOneDash, AfterEquals}
       /\ (IsSome(current') /\ kindOf(Unwrap(current')) = OneDash)
            => /\ OnUntouchedOneDash'
               /\ pulled' \/ UNCHANGED core]_vars

\* eat_one_dash("") has committed zero bytes of a single-dash argument and
\* the cursor, still behind the dash, is AfterOneDash
C35_Witness ==
    /\ op = "eat_one_dash" /\ ret = Some(<<>>) /\ ~pulled /\ ~panicked
    /\ Len(read) > 0
    /\ current = Some(<<Len(buf) - Len(read[Len(read)]) + 1,
                        Len(buf) - Len(read[Len(read)]) + 1, AfterOneDash>>)
    /\ buf[Len(buf) - Len(read[Len(read)]) + 1] = "-"


\* C36: in every state reachable by any sequence of public operations
\* (including dash-inclusive Part commits shortened with take, take_char or
\* take_until), kind AfterOneDash implies that the current view is non-empty
\* and does not start with '=': at least one byte of the partly consumed
\* single-dash argument remains to be read.
C36_AfterOneDashHasBytesLeft ==
    (IsSome(current) /\ ~panicked /\ kindOf(Unwrap(current)) = AfterOneDash)
        => /\ ContentView # <<>>
           /\ ~starts_with(ContentView, <<"=">>)


\* C37: in every reachable state, calling set_ignore_dashes(b) when the flag
\* already equals b leaves the cursor (contentStart, rawStart, kind)
\* unchanged, and calling set_ignore_dashes(b) twice in a row yields the same
\* cursor as calling it once; in particular set_ignore_dashes(false) on a
\* tokenizer that never had ignore-dashes enabled changes neither the kind
\* nor the views of the current token.
C37_SetIgnoreDashesIdempotent ==
    [][op' = "set_ignore_dashes"
        => /\ ignore_dashes' = ignore_dashes => current' = current
           /\ set_ignore_dashes(current', buf', ignore_dashes') = current']_vars


\* C38: parse_value peeks, validates and only then commits: when no value
\* Part is available it returns the no-value error, and when the conversion
\* of the peeked text fails it returns that error, in both cases leaving the
\* tokenizer cursor, buffer and source unchanged; only when conversion
\* succeeds is the whole peeked view committed (dash-inclusive if the type
\* allows leading dashes, dash-exclusive otherwise).
C38_ParseValuePeeksThenCommits ==
    [][\A context \in StringCtxs :
        (op' = "parse_value" /\ ParseValue(context))
        => LET allow == context.allow_leading_dashes
               available == /\ IsSome(current)
                            /\ allow \/ kindOf(Unwrap(current))
                                           \in {NoDash, AfterOneDash, AfterEquals}
               view == IF allow THEN RawView ELSE ContentView
               converts == /\ Len(view) >= context.min_length
                           /\ Len(view) <= context.max_length
           IN /\ ~panicked'
              /\ IF ~available
                 THEN result' = Err("NoValue")
                 ELSE IF ~converts
                 THEN result' = Err("UnexpectedValue")
                 ELSE result' = OkValue(view)
              /\ result'.tag = "Err"
                    => /\ UNCHANGED core /\ read' = read /\ ~pulled'
                       /\ IsNone(ret')
              /\ result'.tag = "Ok"
                    => /\ ret' = Some(view)
                       /\ MovedOn]_vars

\* a conversion has failed on a non-empty value behind an '=' and the
\* tokenizer still rests in front of it
C38_Witness ==
    /\ op = "parse_value" /\ result = Err("UnexpectedValue") /\ ~panicked
    /\ IsSome(current) /\ kindOf(Unwrap(current)) = AfterEquals
    /\ ContentView # <<>>


\* the current token is the flag: -s.. for a short alias, --l or --l=.. for
\* a long one
FlagMatches(flag) ==
    /\ IsSome(current)
    /\ \/ /\ flag.variant \in {"Short", "LongShort"}
          /\ kindOf(Unwrap(current)) \in {OneDash, AfterOneDash}
          /\ starts_with(ContentView, flag.short)
       \/ /\ flag.variant \in {"Long", "LongShort"}
          /\ kindOf(Unwrap(current)) = TwoDashes
          /\ \/ ContentView = flag.long
             \/ starts_with(ContentView, flag.long \o <<"=">>)

\* the source as the call of the step saw it: the arguments the step pulled
SrcNow ==
    [i \in 1..iter |-> IF i <= Len(read') - Len(read)
                       THEN read'[Len(read) + i] ELSE AnyArg]

\* the step is SetOnce(&mut bool_var).apply(input, context)
AppliedSetOnceBool(context) ==
    /\ op' = "SetOnce<bool>"
    /\ LET a == SetOnce_bool_apply(current, SrcNow, buf, ignore_dashes, context, bool_var)
       IN /\ current' = a.e.current /\ buf' = a.e.buf /\ iter' = Len(a.e.iter)
          /\ result' = a.r /\ bool_var' = a.var

\* the step is SetOnce(&mut option_var).apply(input, context)
AppliedSetOnceOption(context) ==
    /\ op' = "SetOnce<Option>"
    /\ LET a == SetOnce_option_apply(current, SrcNow, buf, ignore_dashes, context,
                                     option_var)
       IN /\ current' = a.e.current /\ buf' = a.e.buf /\ iter' = Len(a.e.iter)
          /\ result' = a.r /\ option_var' = a.var

\* an application whose flag does not match: false, nothing changes
NoMatchNoEffect ==
    /\ result' = OkBool(FALSE)
    /\ bool_var' = bool_var /\ option_var' = option_var
    /\ UNCHANGED core /\ read' = read /\ ~pulled'

\* C40: for any sequence of SetOnce applications on the same variable, the
\* first application whose flag matches sets the variable and returns true,
\* every later application whose flag matches returns the
\* too-many-occurrences error and leaves the stored value unchanged, and an
\* application whose flag does not match returns false leaving both the
\* variable and the tokenizer unchanged.
C40_SetOnceStoresAtMostOnce ==
    [][/\ \A context \in Flags :
            AppliedSetOnceBool(context)
            => IF FlagMatches(context)
               THEN IF ~bool_var
                    THEN bool_var' /\ result' = OkBool(TRUE)
                    ELSE bool_var' /\ result' = Err("TooManyArgOccurrences")
               ELSE NoMatchNoEffect
       /\ \A context \in ArgCtxs :
            AppliedSetOnceOption(context)
            => IF FlagMatches(context.flag)
               THEN IF IsNone(option_var)
                    THEN IsSome(option_var') /\ result' = OkBool(TRUE)
                    ELSE /\ option_var' = option_var
                         /\ result' = Err("TooManyArgOccurrences")
               ELSE NoMatchNoEffect]_vars

\* C40, amended: an application of SetOnce<Option<V>> whose flag matches but
\* whose value is missing or rejected returns that error and leaves the
\* variable unchanged; the first application whose flag matches and whose
\* value is parsed sets the variable and returns true, every later one
\* returns the too-many-occurrences error and leaves the stored value
\* unchanged; an application whose flag does not match returns false leaving
\* both the variable and the tokenizer unchanged. For SetOnce<bool> the flag
\* alone decides.
C40_SetOnceStoresParsedValueOnce ==
    [][/\ \A context \in Flags :
            AppliedSetOnceBool(context)
            => IF FlagMatches(context)
               THEN IF ~bool_var
                    THEN bool_var' /\ result' = OkBool(TRUE)
                    ELSE bool_var' /\ result' = Err("TooManyArgOccurrences")
               ELSE NoMatchNoEffect
       /\ \A context \in ArgCtxs :
            AppliedSetOnceOption(context)
            => IF FlagMatches(context.flag)
               THEN IF IsNone(ret')
                    THEN /\ option_var' = option_var
                         /\ result' \in {Err("MissingValue"), Err("UnexpectedValue")}
                    ELSE IF IsNone(option_var)
                    THEN option_var' = ret' /\ result' = OkBool(TRUE)
                    ELSE /\ option_var' = option_var
                         /\ result' = Err("TooManyArgOccurrences")
               ELSE NoMatchNoEffect]_vars

\* a second option with a well-formed value was refused and the value stored
\* by the first is still there
C40_Witness ==
    /\ op = "SetOnce<Option>" /\ result = Err("TooManyArgOccurrences") /\ ~panicked
    /\ IsSome(option_var) /\ IsSome(ret) /\ ret # option_var

\* the tokenizer is beyond the position m: it is exhausted, or it has read
\* another argument, or its cursor is further on in the buffer
AdvancedBeyond(m) ==
    \/ IsNone(current')
    \/ Len(read') > m[1]
    \/ IsSome(current') /\ contentStart(Unwrap(current')) > m[2]

\* C39: Every iteration of the loops `while !input.is_empty()` of the example
\* program, in main and in parse_subcommand, either returns or strictly
\* advances the tokenizer: whenever control comes back to the head of a loop
\* from its body, the tokenizer is beyond the position it had when the
\* iteration started, so that no loop goes round forever without progress.
C39_LoopIterationsAdvance ==
    [][/\ (pc' = "main_loop" /\ pc \notin {"start", "main_loop"})
            => AdvancedBeyond(mark[1])
       /\ (pc' = "sub_loop" /\ pc \notin {"main_subcommand", "sub_loop"})
            => AdvancedBeyond(mark[2])]_vars

\* the part of it that is about the loop of main
MainLoopAdvances ==
    [][(pc' = "main_loop" /\ pc \notin {"start", "main_loop"})
            => AdvancedBeyond(mark[1])]_vars

====
